---- MODULE Spec2Model ----
(***************************************************************************)
(* Heimdall cam: the mobile client's chunked recording and upload          *)
(* (src/App.tsx), the backend's upload pipeline (src/backend/server.js),   *)
(* the Video Intelligence polling router (src/unnamed/part_001) and the    *)
(* AI alert routes (src/backend/server.js, src/unnamed/part_003).          *)
(*                                                                         *)
(* Each subsystem has its own specification; the variables of the other   *)
(* subsystems stay at their initial values.                                *)
(*   SpecApp       streaming and chunked recording of the mobile client    *)
(*   SpecUpload    the retry loop of uploadVideoChunk                      *)
(*   SpecServer    sessions and the /upload-chunk handler of the backend   *)
(*   SpecServices  the backend's use of GCS and Video Intelligence         *)
(*   SpecVI        the Video Intelligence router                           *)
(*   SpecAI        the AI alert routes                                     *)
(*   SpecDispatch  the emergency dispatch route and its Socket.IO rooms    *)
(*   SpecLive      the live frames of the client and their broadcast       *)
(*   SpecRisk      CrowdAnalyzer.calculateBottleneckRisk on its inputs      *)
(*   SpecCam       recording sessions and processVideoChunks (part_002)     *)
(*   SpecChunk     the 'chunk-uploaded' events and processVideoChunk        *)
(*   SpecDE        dispatchEmergency, await by await                        *)
(***************************************************************************)
EXTENDS Integers, Sequences, FiniteSets, TLC

VARIABLES
    \* ---- mobile client (src/App.tsx) ----
    clock,          \* Date.now(), strictly larger at every later user event
    isStreaming,    \* React state, App.tsx:32
    isRecording,    \* React state, App.tsx:33
    sessionId,      \* React state, App.tsx:34: <<deviceId, Date.now()>>
    chunkCount,     \* React state, App.tsx:39
    connectionStatus, \* React state, App.tsx:37
    startCall,      \* the startStreaming call in flight, with the render it closed over
    stopCall,       \* the stopStreaming call in flight
    camera,         \* camera.current: recording flag and the callbacks' closure
    timers,         \* armed CHUNK_DURATION timeouts, each with its closure
    uploads,        \* the uploadVideoChunk calls, in call order
    runs,           \* number of startStreaming presses so far
    \* ---- backend (src/backend/server.js, lines 1-1960) ----
    GCS_ENABLED,    \* server.js:47
    VIDEO_AI_ENABLED, \* server.js:48
    monitoring,     \* whether startTempFileMonitoring set its interval, server.js:472
    now,            \* Math.floor(Date.now() / 1000): the second the requests arrive in
    activeSessions, \* server.js:169: session id -> session
    requests,       \* the POST /upload-chunk requests, in order of arrival
    tempDir,        \* the files in TEMP_DIR
    uploadsDir,     \* the files under UPLOADS_DIR: path -> the request whose chunk it holds
    bucket,         \* the objects of the GCS bucket: path -> the chunk stored
    gcsCalls,       \* who has called bucket.upload
    analyses,       \* the processVideoAnalysis calls of the last analysis request
    lastReply,      \* the last response of /analyze-video or /analyze-all-videos
    \* ---- routers of the backend ----
    vi,             \* the /analyze-video-complete request in the handler (part_001)
    ai,             \* the /api/ai request in the handler (server.js, part_003)
    \* ---- emergency dispatch (server.js, services/emergency-dispatch.js) ----
    ed,             \* the /api/emergency/dispatch request in the handler
    sockets,        \* the Socket.IO clients of server.js: socket -> its rooms
    de,             \* a call of EmergencyDispatchService.dispatchEmergency, step by step
    \* ---- live streaming (src/App.tsx, src/unnamed/part_002) ----
    live,           \* the client's live stream: React state, calls, intervals
    hub,            \* the Socket.IO side of the cam backend, part_002:104-245
    chunkEvents,    \* the 'chunk-uploaded' events of part_002:202-225, in order of arrival
    \* ---- CrowdAnalyzer (src/unnamed/part_003) ----
    risk,           \* a call of calculateBottleneckRisk: its arguments and its result
    \* ---- cam backend (src/unnamed/part_002, lines 807-1421) ----
    currentRecording, \* part_002:863-869
    camChunks,      \* the chunkInfo objects made so far, with the place of their file
    camPending,     \* the /upload-chunk request that awaits fs.move
    camRuns,        \* the processVideoChunks calls in progress
    camBucket,      \* the objects of the bucket of part_002:837-838
    camLast,        \* the last response of the cam backend: its status and error
    camCount        \* requests and runs so far

appVars == <<clock, isStreaming, isRecording, sessionId, chunkCount, connectionStatus,
             startCall, stopCall, camera, timers, uploads, runs>>

srvVars == <<GCS_ENABLED, VIDEO_AI_ENABLED, monitoring, now, activeSessions, requests,
             tempDir, uploadsDir, bucket, gcsCalls, analyses, lastReply>>

\* the state of the subsystems that have a specification of their own
camVars == <<currentRecording, camChunks, camPending, camRuns, camBucket, camLast,
             camCount>>

extVars == <<ed, sockets, de, live, hub, chunkEvents, risk, camVars>>

apiVars == <<vi, ai, extVars>>

vars == <<appVars, srvVars, apiVars>>

-----------------------------------------------------------------------------
(* Bounds of the model *)

\* startStreaming presses explored
MaxRuns == 3
\* uploadVideoChunk calls explored
MaxUploads == 2
\* POST /upload-chunk requests explored
MaxRequests == 2
\* POST /start-recording requests explored
MaxSessions == 1

-----------------------------------------------------------------------------
(* src/App.tsx *)

DeviceId == "dev"

\* `${id}-${Date.now()}`: the device id and the time, App.tsx:282 and 747
NewSessionId(id, time) == <<id, time>>

\* const maxRetries = 3, App.tsx:600
maxRetries == 3

RECURSIVE Pow2(_)
Pow2(n) == IF n = 0 THEN 1 ELSE 2 * Pow2(n - 1)

\* a mutant of BackoffDelay: the exponent taken before the increment
BackoffDelayBeforeIncrement(retryCount) == Pow2(retryCount - 1)

\* Math.pow(2, retryCount) * 1000 ms, in seconds, App.tsx:685
BackoffDelay(retryCount) == Pow2(retryCount)

\* The values a function of the component closes over: those of the render in
\* which the function was created (const handlers of a function component).
Render == [isStreaming |-> isStreaming, isRecording |-> isRecording,
           sessionId |-> sessionId, chunkCount |-> chunkCount]

NoCall == [pc |-> "idle"]

\* uploadVideoChunk up to the retry loop, App.tsx:579-600: the chunk id and form
\* data are built from the closure's sessionId and chunkCount; an invalid video
\* object ends the call at once.
NewUpload(closure, run, valid) ==
    [sessionId |-> closure.sessionId, chunk |-> closure.chunkCount, run |-> run,
     retryCount |-> 0, attempts |-> 0, fetches |-> 0, failures |-> 0, waits |-> <<>>,
     pc |-> IF valid THEN "attempt" ELSE "done",
     outcome |-> IF valid THEN "none" ELSE "invalid"]

\* no request in the handler of /analyze-video-complete
IdleVI ==
    [pc |-> "idle", gcsUri |-> [type |-> "undefined", text |-> <<>>], maxWaitTime |-> 0,
     tokens |-> 0, starts |-> 0, operation |-> "none", dateNow |-> 0, startTime |-> 0,
     polls |-> 0, startedAt |-> 0, gap |-> 0, notDone |-> 0, last |-> "none",
     outcome |-> "none", error |-> "none", responses |-> <<>>]

\* no request in the handlers of /api/ai
IdleAI ==
    [pc |-> "idle", route |-> "none", mediaType |-> "none", objects |-> FALSE,
     labels |-> FALSE, text |-> FALSE, density |-> 0, hour |-> 0, eventType |-> "none",
     threats |-> {}, threatLevel |-> "none", riskLevel |-> "none", riskScore |-> 0,
     stored |-> <<>>, alerts |-> <<>>, emitted |-> <<>>, dispatched |-> <<>>, status |-> 0]

\* the Socket.IO clients of server.js
Sockets == {"s1", "s2"}

\* no request in the handler of /api/emergency/dispatch
IdleED ==
    [pc |-> "idle", type |-> "undefined", location |-> FALSE, lat |-> <<>>, lng |-> <<>>,
     stored |-> FALSE, escalated |-> FALSE, found |-> <<>>, assignments |-> <<>>,
     alerted |-> <<>>, result |-> "none", emitted |-> <<>>, status |-> 0,
     error |-> "none"]

\* no call of dispatchEmergency
IdleDE ==
    [pc |-> "idle", firebase |-> FALSE, available |-> <<>>, mock |-> FALSE,
     found |-> <<>>, assignments |-> <<>>, stored |-> "none", status |-> "none",
     commandCenter |-> FALSE, log |-> <<>>, result |-> "none"]

\* no client is connected
NoSockets == [s \in Sockets |-> [connected |-> FALSE, rooms |-> {}, joined |-> {}]]

\* the client before START STREAMING is pressed, App.tsx:32-51
IdleLive ==
    [isStreaming |-> FALSE, videoStreamActive |-> FALSE,
     connectionStatus |-> "Disconnected", socket |-> 0,
     call |-> [pc |-> "idle", videoStreamActive |-> FALSE, socket |-> 0],
     intervals |-> <<>>, frameIntervalRef |-> 0, connected |-> {}, made |-> 0,
     frames |-> <<>>, lastTick |-> [interval |-> 0], presses |-> 0]

\* the maps of part_002:104-106 and the dashboard room, all empty
IdleHub ==
    [deviceSessions |-> 0, activeStreams |-> [active |-> FALSE, socketId |-> 0,
                                               frameCount |-> 0],
     dashboard |-> {}, broadcasts |-> <<>>]

\* no call of calculateBottleneckRisk
NoRisk ==
    [pc |-> "idle", currentDensity |-> 0, timeOfDay |-> 0, eventType |-> "general",
     score |-> 0, level |-> "none"]

\* let currentRecording = {...}, part_002:863-869; 0 stands for null
NoRecording ==
    [isRecording |-> FALSE, startTime |-> 0, chunks |-> <<>>, sessionId |-> 0,
     metadata |-> "null"]

\* no response yet
NoResponse ==
    [route |-> "none", status |-> 0, error |-> "none", unchanged |-> TRUE,
     tempDeleted |-> TRUE]

\* the cam backend after its start, part_002:807-869
IdleCam ==
    /\ currentRecording = NoRecording
    /\ camChunks = <<>>
    /\ camPending = [pc |-> "idle", sessionId |-> 0]
    /\ camRuns = <<>>
    /\ camBucket = {}
    /\ camLast = NoResponse
    /\ camCount = [starts |-> 0, runs |-> 0]

IdleExt ==
    /\ ed = IdleED /\ sockets = NoSockets /\ de = IdleDE
    /\ live = IdleLive /\ hub = IdleHub /\ chunkEvents = <<>>
    /\ risk = NoRisk
    /\ IdleCam

IdleApi == vi = IdleVI /\ ai = IdleAI /\ IdleExt

\* the backend before it is started
IdleServer ==
    /\ GCS_ENABLED = FALSE
    /\ VIDEO_AI_ENABLED = FALSE
    /\ monitoring = FALSE
    /\ now = 0
    /\ activeSessions = <<>>
    /\ requests = <<>>
    /\ tempDir = {}
    /\ uploadsDir = <<>>
    /\ bucket = <<>>
    /\ gcsCalls = {}
    /\ analyses = {}
    /\ lastReply = [route |-> "none"]

InitApp ==
    /\ clock = 1
    /\ isStreaming = FALSE
    /\ isRecording = FALSE
    /\ sessionId = NewSessionId(DeviceId, 0)
    /\ chunkCount = 0
    /\ connectionStatus = "Disconnected"
    /\ startCall = NoCall
    /\ stopCall = NoCall
    /\ camera = [recording |-> FALSE]
    /\ timers = {}
    /\ uploads = <<>>
    /\ runs = 0
    /\ IdleServer
    /\ IdleApi

\* camera.current.startRecording, App.tsx:551-561: a camera that is already
\* recording reports an error and keeps the recording it has.
CameraStart(cam, closure, run) ==
    IF cam.recording THEN cam
    ELSE [recording |-> TRUE, closure |-> closure, run |-> run]

\* onRecordingFinished of the recording that ends, App.tsx:553-556: the callback
\* calls the uploadVideoChunk of the render it was created in.
FinishedUploads(cam, valid) ==
    IF cam.recording THEN <<NewUpload(cam.closure, cam.run, valid)>> ELSE <<>>

\* startStreaming up to its first await, App.tsx:490-509; the handler of the
\* record button while isStreaming is false, App.tsx:927.
PressStart ==
    /\ ~isStreaming
    /\ startCall.pc = "idle"
    /\ runs < MaxRuns
    /\ isStreaming' = TRUE
    /\ connectionStatus' = "Connecting..."
    /\ runs' = runs + 1
    /\ startCall' = [pc |-> "connecting", closure |-> Render, run |-> runs + 1]
    /\ clock' = clock + 1
    /\ UNCHANGED <<isRecording, sessionId, chunkCount, stopCall, camera, timers,
                   uploads,
                   srvVars, apiVars>>

\* connectToServer rejects, or the socket is not connected, App.tsx:515-527
ConnectFail ==
    /\ startCall.pc = "connecting"
    /\ isStreaming' = FALSE
    /\ connectionStatus' = "Connection Failed"
    /\ startCall' = NoCall
    /\ UNCHANGED <<clock, isRecording, sessionId, chunkCount, stopCall, camera, timers,
                   uploads, runs,
                   srvVars, apiVars>>

\* connectToServer resolves and 'start-stream' is emitted, App.tsx:510-529;
\* the call then waits 1000 ms.
ConnectOk ==
    /\ startCall.pc = "connecting"
    /\ startCall' = [startCall EXCEPT !.pc = "waiting"]
    /\ UNCHANGED <<clock, isStreaming, isRecording, sessionId, chunkCount,
                   connectionStatus, stopCall, camera, timers, uploads, runs,
                   srvVars, apiVars>>

\* the rest of startStreaming, App.tsx:531-537, with startChunkedRecording,
\* App.tsx:542-572: the recording is started and the CHUNK_DURATION timer armed,
\* both with the closure of the render startStreaming was created in.
StartRecording ==
    /\ startCall.pc = "waiting"
    /\ isRecording' = TRUE
    /\ camera' = CameraStart(camera, startCall.closure, startCall.run)
    /\ timers' = timers \cup {[closure |-> startCall.closure, run |-> startCall.run]}
    /\ connectionStatus' = "Live Streaming"
    /\ startCall' = NoCall
    /\ UNCHANGED <<clock, isStreaming, sessionId, chunkCount, stopCall, uploads, runs,
                   srvVars, apiVars>>

\* The stream is live: startStreaming has succeeded and stopStreaming has not
\* been called since.
StreamLive == isStreaming /\ connectionStatus = "Live Streaming"

\* if (isStreaming), App.tsx:566: the isStreaming of the timer callback's closure
TimerRestarts(t) == t.closure.isStreaming

\* if (isRecording && camera.current), App.tsx:564, read from the closure
TimerStops(t) == t.closure.isRecording

\* the CHUNK_DURATION timeout armed by startChunkedRecording, App.tsx:563-572
TimerExpire(t, valid) ==
    /\ t \in timers
    /\ LET stopped == IF TimerStops(t) THEN [recording |-> FALSE] ELSE camera
           finished == IF TimerStops(t) THEN FinishedUploads(camera, valid) ELSE <<>>
           restart == TimerStops(t) /\ TimerRestarts(t)
       IN  /\ Len(uploads) + Len(finished) <= MaxUploads
           /\ uploads' = uploads \o finished
           /\ camera' = IF restart THEN CameraStart(stopped, t.closure, t.run) ELSE stopped
           /\ chunkCount' = IF restart THEN chunkCount + 1 ELSE chunkCount
           /\ isRecording' = IF restart THEN TRUE ELSE isRecording
           /\ timers' = IF restart THEN timers ELSE timers \ {t}
    /\ UNCHANGED <<clock, isStreaming, sessionId, connectionStatus, startCall, stopCall,
                   runs,
                   srvVars, apiVars>>

\* stopStreaming up to the await of camera.current.stopRecording() in
\* stopVideoStreaming, App.tsx:722-730 and 696-708; the handler of the record
\* button while isStreaming is true, App.tsx:927.
PressStop ==
    /\ isStreaming
    /\ stopCall.pc = "idle"
    /\ isStreaming' = FALSE
    /\ isRecording' = FALSE
    /\ connectionStatus' = "Disconnecting..."
    /\ stopCall' = [pc |-> "stopping", closure |-> Render]
    /\ clock' = clock + 1
    /\ UNCHANGED <<sessionId, chunkCount, startCall, camera, timers, uploads, runs,
                   srvVars, apiVars>>

\* const newSessionId = `${deviceId}-${Date.now()}`, App.tsx:747
StopSessionId(closure, time) == NewSessionId(DeviceId, time)

\* the rest of stopStreaming once the camera has stopped, App.tsx:709-758: the
\* recording that ends is handed to onRecordingFinished, the socket is closed,
\* the session id is replaced and chunkCount is reset.
StopFinish(valid) ==
    /\ stopCall.pc = "stopping"
    /\ LET finished == FinishedUploads(camera, valid)
       IN  /\ Len(uploads) + Len(finished) <= MaxUploads
           /\ uploads' = uploads \o finished
    /\ camera' = [recording |-> FALSE]
    /\ sessionId' = StopSessionId(stopCall.closure, clock)
    /\ chunkCount' = 0
    /\ connectionStatus' = "Disconnected"
    /\ stopCall' = NoCall
    /\ UNCHANGED <<clock, isStreaming, isRecording, startCall, timers, runs,
                   srvVars, apiVars>>

\* What one pass of the retry loop can meet, App.tsx:602-655: the health check
\* fails (no upload request is made), the response is OK, the response is not OK
\* with a status below 500, with a status of 500 or more, or fetch throws
\* (network failure, or the 90 s abort).
AttemptResults == {"unreachable", "ok", "client_error", "server_error", "network"}

\* the results that reach the catch block, App.tsx:618-621, 648 and 657
Thrown(result) == result \in {"unreachable", "server_error", "network"}

\* while (retryCount < maxRetries), App.tsx:602
LoopContinues(retryCount) == retryCount < maxRetries

\* One pass of the retry loop of uploadVideoChunk, App.tsx:602-689. A thrown
\* error increments retryCount and, if retryCount < maxRetries, starts the wait
\* of 2^retryCount seconds; after the loop the failure is reported and the alert
\* with 'Retry Now' and 'Skip' is shown, App.tsx:692-702.
UploadAttempt(i, result) ==
    /\ i \in 1..Len(uploads)
    /\ uploads[i].pc = "attempt"
    /\ LET u == uploads[i]
           n == u.retryCount + 1
           tried == [u EXCEPT !.attempts = @ + 1,
                              !.fetches = IF result = "unreachable" THEN @ ELSE @ + 1]
       IN  uploads' = [uploads EXCEPT ![i] =
               CASE result = "ok" ->
                        [tried EXCEPT !.pc = "done", !.outcome = "ok"]
                 [] result = "client_error" ->
                        [tried EXCEPT !.pc = "done", !.outcome = "rejected",
                                      !.failures = @ + 1]
                 [] Thrown(result) ->
                        IF LoopContinues(n)
                        THEN [tried EXCEPT !.retryCount = n, !.failures = @ + 1,
                                           !.waits = Append(@, BackoffDelay(n)),
                                           !.pc = "wait"]
                        ELSE [tried EXCEPT !.retryCount = n, !.failures = @ + 1,
                                           !.pc = "alert", !.outcome = "failed"]]
    /\ UNCHANGED <<clock, isStreaming, isRecording, sessionId, chunkCount,
                   connectionStatus, startCall, stopCall, camera, timers, runs,
                   srvVars, apiVars>>

\* the backoff timeout resolves, App.tsx:686, and the loop goes on
UploadWaitDone(i) ==
    /\ i \in 1..Len(uploads)
    /\ uploads[i].pc = "wait"
    /\ uploads' = [uploads EXCEPT ![i].pc = "attempt"]
    /\ UNCHANGED <<clock, isStreaming, isRecording, sessionId, chunkCount,
                   connectionStatus, startCall, stopCall, camera, timers, runs,
                   srvVars, apiVars>>

\* 'Retry Now' of the alert, App.tsx:699: uploadVideoChunk(video) is called again,
\* by the closure that showed the alert.
AlertRetryNow(i) ==
    /\ i \in 1..Len(uploads)
    /\ uploads[i].pc = "alert"
    /\ Len(uploads) < MaxUploads
    /\ uploads' = Append([uploads EXCEPT ![i].pc = "done"],
                         [uploads[i] EXCEPT !.retryCount = 0, !.attempts = 0,
                                            !.fetches = 0, !.failures = 0,
                                            !.waits = <<>>, !.pc = "attempt",
                                            !.outcome = "none"])
    /\ UNCHANGED <<clock, isStreaming, isRecording, sessionId, chunkCount,
                   connectionStatus, startCall, stopCall, camera, timers, runs,
                   srvVars, apiVars>>

\* 'Skip' of the alert, App.tsx:700
AlertSkip(i) ==
    /\ i \in 1..Len(uploads)
    /\ uploads[i].pc = "alert"
    /\ uploads' = [uploads EXCEPT ![i].pc = "done"]
    /\ UNCHANGED <<clock, isStreaming, isRecording, sessionId, chunkCount,
                   connectionStatus, startCall, stopCall, camera, timers, runs,
                   srvVars, apiVars>>

NextApp ==
    \/ PressStart
    \/ ConnectFail
    \/ ConnectOk
    \/ StartRecording
    \/ \E t \in timers, valid \in BOOLEAN : TimerExpire(t, valid)
    \/ PressStop
    \/ \E valid \in BOOLEAN : StopFinish(valid)

SpecApp == InitApp /\ [][NextApp]_vars

\* The uploadVideoChunk calls on their own: the retry loop reads and writes no
\* state of the component but the status line, so it is explored from every call
\* the component can make.
InitUpload ==
    /\ clock = 1
    /\ isStreaming = FALSE
    /\ isRecording = FALSE
    /\ sessionId = NewSessionId(DeviceId, 0)
    /\ chunkCount = 0
    /\ connectionStatus = "Disconnected"
    /\ startCall = NoCall
    /\ stopCall = NoCall
    /\ camera = [recording |-> FALSE]
    /\ timers = {}
    /\ runs = 0
    /\ IdleServer
    /\ IdleApi
    /\ \E t \in 0..MaxRuns, run \in 1..MaxRuns, valid \in BOOLEAN :
          uploads = <<NewUpload([sessionId |-> NewSessionId(DeviceId, t),
                                 chunkCount |-> 0], run, valid)>>

NextUpload ==
    \/ \E i \in 1..MaxUploads, result \in AttemptResults : UploadAttempt(i, result)
    \/ \E i \in 1..MaxUploads : UploadWaitDone(i)
    \/ \E i \in 1..MaxUploads : AlertRetryNow(i)
    \/ \E i \in 1..MaxUploads : AlertSkip(i)

SpecUpload == InitUpload /\ [][NextUpload]_vars

-----------------------------------------------------------------------------
(* Claims about the mobile client *)

Min(a, b) == IF a <= b THEN a ELSE b

\* after the k-th failure the call has waited 2^1, ..., 2^k seconds, and nothing
\* after the last failure the loop allows
WaitedAfter(u, failed) ==
    /\ Len(u.waits) = Min(failed, maxRetries - 1)
    /\ \A k \in 1..Len(u.waits) : u.waits[k] = Pow2(k)

UploadCallOk(u) ==
    /\ u.attempts <= maxRetries
    /\ u.fetches <= u.attempts
    /\ WaitedAfter(u, u.retryCount)
    /\ (u.outcome = "failed") = (u.retryCount = maxRetries)
    /\ u.outcome = "failed" => u.pc \in {"alert", "done"} /\ u.attempts = maxRetries
    /\ u.outcome \in {"ok", "rejected"} =>
           u.pc = "done" /\ u.attempts = u.retryCount + 1 /\ u.fetches >= 1
    /\ u.outcome = "invalid" => u.pc = "done" /\ u.attempts = 0
    /\ u.outcome = "none" => u.pc \in {"attempt", "wait"} /\ u.attempts = u.retryCount
    /\ u.pc = "wait" => u.retryCount \in 1..(maxRetries - 1)

C5_SessionPerRun ==
    \A i, j \in 1..Len(uploads) :
        (uploads[i].run = uploads[j].run) = (uploads[i].sessionId = uploads[j].sessionId)

-----------------------------------------------------------------------------
(* src/backend/server.js, lines 1-1960 *)

\* initializeGoogleCloudServices, server.js:66-114: without key file, project id
\* or bucket access both services stay disabled; Video Intelligence is only
\* initialised once the bucket is accessible.
ServiceConfigs == {<<FALSE, FALSE>>, <<TRUE, FALSE>>, <<TRUE, TRUE>>}

\* a file with a video extension that something else left in TEMP_DIR; multer
\* names its own files without extension, server.js:150-151
StrayVideo == <<"stray.mp4", 0>>

\* the temp files multer stores for request r, server.js:595-598
TempVideo(r) == <<"video", r>>
TempMetadata(r) == <<"metadata", r>>

\* startServer, server.js:1926-1933: the services are initialised, then
\* startTempFileMonitoring sets the interval only if GCS is enabled
\* (server.js:472-474).
StartServer(dir) ==
    /\ \E c \in ServiceConfigs : GCS_ENABLED = c[1] /\ VIDEO_AI_ENABLED = c[2]
    /\ monitoring = GCS_ENABLED
    /\ now = 0
    /\ activeSessions = <<>>
    /\ requests = <<>>
    /\ tempDir = dir
    /\ uploadsDir = <<>>
    /\ bucket = <<>>
    /\ gcsCalls = {}
    /\ analyses = {}
    /\ lastReply = [route |-> "none"]

\* POST /start-recording, server.js:527-555; the session id stands for the uuid
PostStartRecording ==
    /\ Len(activeSessions) < MaxSessions
    /\ activeSessions' = Append(activeSessions,
                                [chunkCount |-> 0, status |-> "active", uploads |-> <<>>])
    /\ UNCHANGED <<GCS_ENABLED, VIDEO_AI_ENABLED, monitoring, now, requests, tempDir,
                   uploadsDir, bucket, gcsCalls, analyses, lastReply,
                   appVars, apiVars>>

\* POST /stop-recording for an existing session, server.js:558-592
PostStopRecording(s) ==
    /\ s \in 1..Len(activeSessions)
    /\ activeSessions[s].status = "active"
    /\ activeSessions' = [activeSessions EXCEPT ![s].status = "stopped"]
    /\ UNCHANGED <<GCS_ENABLED, VIDEO_AI_ENABLED, monitoring, now, requests, tempDir,
                   uploadsDir, bucket, gcsCalls, analyses, lastReply,
                   appVars, apiVars>>

\* The metadata file of a request, server.js:617-627: none (metadata stays {}, as
\* it does for a file that cannot be parsed); the JSON text null; or an object
\* with sessionId, deviceId and chunkIndex.
MetadataKinds == {"none", "null", "named"}

\* the session id 'unknown', and any other id that is the id of no session
NoSession == 0

\* metadata.sessionId || 'unknown', server.js:630
SessionOf(meta, names) == IF meta = "named" THEN names ELSE NoSession

\* metadata.deviceId || 'unknown', server.js:631
DeviceOf(meta) == IF meta = "named" THEN "dev" ELSE "unknown"

\* activeSessions.has(sessionId), server.js:636 and 660
HasSession(sessions, sid) == sid \in 1..Len(sessions)

\* a mutant of CountChunk: the chunk is counted twice
CountChunkTwice(n) == n + 2

\* session.chunkCount++, server.js:638
CountChunk(n) == n + 1

\* The session ids a client can name: those POST /start-recording has handed
\* out, and ids of no session (a uuid cannot be named before it is drawn).
Nameable == (1..Len(activeSessions)) \cup {NoSession}

\* POST /upload-chunk up to the call of moveToUploads, server.js:595-646: multer
\* has stored the files; without a video file the answer is 400; the metadata
\* is parsed (JSON null makes metadata.chunkIndex throw: 500); the session named
\* by the metadata, if it exists, counts the chunk; the GCS path is stamped.
UploadChunkReceive(video, meta, names) ==
    /\ Len(requests) < MaxRequests
    /\ meta = "named" \/ names = NoSession
    /\ LET r == Len(requests) + 1
           sid == SessionOf(meta, names)
           files == (IF video THEN {TempVideo(r)} ELSE {})
                    \cup (IF meta # "none" THEN {TempMetadata(r)} ELSE {})
           base == [video |-> video, meta |-> meta, sessionId |-> sid,
                    deviceId |-> DeviceOf(meta), gcsPath |-> <<>>, localPath |-> <<>>,
                    gcs |-> "pending", unlinked |-> FALSE, pc |-> "done",
                    reply |-> [status |-> 0]]
       IN  /\ tempDir' = tempDir \cup files
           /\ IF ~video
              THEN /\ requests' = Append(requests, [base EXCEPT !.reply = [status |-> 400]])
                   /\ UNCHANGED activeSessions
              ELSE IF meta = "null"
              THEN /\ requests' = Append(requests, [base EXCEPT !.reply = [status |-> 500]])
                   /\ UNCHANGED activeSessions
              ELSE /\ requests' = Append(requests,
                          [base EXCEPT !.pc = "move",
                                       !.gcsPath = <<DeviceOf(meta), now>>])
                   /\ activeSessions' =
                          IF HasSession(activeSessions, sid)
                          THEN [activeSessions EXCEPT
                                   ![sid].chunkCount = CountChunk(@)]
                          ELSE activeSessions
    /\ UNCHANGED <<GCS_ENABLED, VIDEO_AI_ENABLED, monitoring, now, uploadsDir, bucket,
                   gcsCalls, analyses, lastReply,
                   appVars, apiVars>>

\* step 1 of the handler, server.js:645-646
MoveReady(req) == req.pc = "move"

\* moveToUploads, server.js:291-309: the directory is made, the file name is
\* stamped with the second of the copy, and the temp file is copied; a failure
\* is thrown on and answered with 500, server.js:714-725.
MoveToUploads(r, ok) ==
    /\ r \in 1..Len(requests)
    /\ MoveReady(requests[r])
    /\ LET req == requests[r]
           path == <<req.deviceId, req.sessionId, now>>
       IN  IF ok
           THEN /\ uploadsDir' = (path :> r) @@ uploadsDir
                /\ requests' = [requests EXCEPT ![r].localPath = path, ![r].pc = "gcs"]
           ELSE /\ requests' = [requests EXCEPT ![r].pc = "done",
                                                ![r].reply = [status |-> 500]]
                /\ UNCHANGED uploadsDir
    /\ UNCHANGED <<GCS_ENABLED, VIDEO_AI_ENABLED, monitoring, now, activeSessions, tempDir,
                   bucket, gcsCalls, analyses, lastReply,
                   appVars, apiVars>>

\* a mutant of GcsSkipped: the flag is not read
GcsNeverSkipped == FALSE

\* if (!GCS_ENABLED), server.js:175 and 313
GcsSkipped == ~GCS_ENABLED

\* What bucket.upload can do, server.js:188-228: succeed, or fail and have
\* uploadToGCPImmediately return success: false.
GcsOutcomes == {"ok", "upload_failed"}

\* a mutant of GcsReady: the GCS upload does not wait for the copy
GcsReadyEarly(req) == req.pc \in {"move", "gcs"}

\* step 2 of the handler, server.js:648-649
GcsReady(req) == req.pc = "gcs"

\* uploadToGCPImmediately for the chunk, server.js:174-228, and the upload info
\* pushed to the session, server.js:659-675
GcsUpload(r, outcome) ==
    /\ r \in 1..Len(requests)
    /\ GcsReady(requests[r])
    /\ LET req == requests[r]
           result == IF GcsSkipped THEN "disabled" ELSE outcome
           info == [uploadId |-> r, localPath |-> req.localPath,
                    uploadStatus |-> IF result = "ok" THEN "completed" ELSE "failed"]
       IN  /\ GcsSkipped => outcome = "upload_failed"
           /\ gcsCalls' = IF GcsSkipped THEN gcsCalls ELSE gcsCalls \cup {<<"chunk", r>>}
           /\ bucket' = IF result = "ok"
                        THEN (req.gcsPath :> <<"chunk", r>>) @@ bucket
                        ELSE bucket
           /\ requests' = [requests EXCEPT ![r].gcs = result, ![r].pc = "cleanup"]
           /\ activeSessions' =
                  IF HasSession(activeSessions, req.sessionId)
                  THEN [activeSessions EXCEPT
                           ![req.sessionId].uploads = Append(@, info)]
                  ELSE activeSessions
    /\ UNCHANGED <<GCS_ENABLED, VIDEO_AI_ENABLED, monitoring, now, tempDir, uploadsDir,
                   analyses, lastReply,
                   appVars, apiVars>>

\* cleanupTempFile, server.js:281-288: a failure of fs.unlink is logged and
\* swallowed, and the file stays.
CleanupTempFile(dir, file, unlinked) == IF unlinked THEN dir \ {file} ELSE dir

\* Steps 4 and 5 of the handler and its response, server.js:677-712; fs.unlink
\* works for both temp files of the request or fails for both.
UploadChunkFinish(r, unlinked) ==
    /\ r \in 1..Len(requests)
    /\ requests[r].pc = "cleanup"
    /\ LET req == requests[r]
           afterVideo == CleanupTempFile(tempDir, TempVideo(r), unlinked)
       IN  /\ tempDir' = IF req.meta # "none"
                         THEN CleanupTempFile(afterVideo, TempMetadata(r), unlinked)
                         ELSE afterVideo
           /\ requests' = [requests EXCEPT
                  ![r].pc = "done",
                  ![r].unlinked = unlinked,
                  ![r].reply = [status |-> 200, success |-> TRUE,
                                localPath |-> req.localPath,
                                gcsSuccess |-> (req.gcs = "ok")]]
    /\ UNCHANGED <<GCS_ENABLED, VIDEO_AI_ENABLED, monitoring, now, activeSessions,
                   uploadsDir, bucket, gcsCalls, analyses, lastReply,
                   appVars, apiVars>>

\* One run of the interval set by startTempFileMonitoring, server.js:480-489,
\* with uploadTempFilesToGCP, server.js:312-469: the video files of TEMP_DIR (by
\* extension) are uploaded and, when that succeeded, deleted.
MonitorRun(outcome, unlinked) ==
    /\ monitoring
    /\ IF GcsSkipped \/ StrayVideo \notin tempDir
       THEN /\ outcome = "upload_failed" /\ unlinked
            /\ UNCHANGED <<gcsCalls, bucket, tempDir>>
       ELSE /\ gcsCalls' = gcsCalls \cup {<<"monitor", 0>>}
            /\ outcome # "ok" => unlinked
            /\ bucket' = IF outcome = "ok"
                         THEN (<<"unknown", now>> :> StrayVideo) @@ bucket
                         ELSE bucket
            /\ tempDir' = IF outcome = "ok"
                          THEN CleanupTempFile(tempDir, StrayVideo, unlinked)
                          ELSE tempDir
    /\ UNCHANGED <<GCS_ENABLED, VIDEO_AI_ENABLED, monitoring, now, activeSessions, requests,
                   uploadsDir, analyses, lastReply,
                   appVars, apiVars>>

\* if (!VIDEO_AI_ENABLED), server.js:1047 and 1112
AnalysisRefused == ~VIDEO_AI_ENABLED

\* POST /analyze-video, server.js:1036-1107: 400 without gcsUri, 503 without
\* Video AI, else the analysis is started and the answer is 200.
PostAnalyzeVideo(hasUri) ==
    /\ IF ~hasUri
       THEN /\ lastReply' = [route |-> "/analyze-video", hasUri |-> hasUri, status |-> 400]
            /\ analyses' = {}
       ELSE IF AnalysisRefused
       THEN /\ lastReply' = [route |-> "/analyze-video", hasUri |-> hasUri, status |-> 503]
            /\ analyses' = {}
       ELSE /\ lastReply' = [route |-> "/analyze-video", hasUri |-> hasUri, status |-> 200]
            /\ analyses' = {<<"manual", "uri">>}
    /\ UNCHANGED <<GCS_ENABLED, VIDEO_AI_ENABLED, monitoring, now, activeSessions, requests,
                   tempDir, uploadsDir, bucket, gcsCalls,
                   appVars, apiVars>>

\* POST /analyze-all-videos, server.js:1110-1212: 503 without Video AI or
\* without GCS; else every video of the bucket whose analysisStatus is pending
\* (the status every upload sets, server.js:197) is analysed; 500 if the
\* listing fails.
PostAnalyzeAllVideos(listed) ==
    /\ IF AnalysisRefused \/ GcsSkipped
       THEN /\ listed
            /\ lastReply' = [route |-> "/analyze-all-videos", hasUri |-> FALSE,
                             status |-> 503]
            /\ analyses' = {}
       ELSE IF ~listed
       THEN /\ lastReply' = [route |-> "/analyze-all-videos", hasUri |-> FALSE,
                             status |-> 500]
            /\ analyses' = {}
       ELSE /\ lastReply' = [route |-> "/analyze-all-videos", hasUri |-> FALSE,
                             status |-> 200]
            /\ analyses' = {<<"bulk", p>> : p \in DOMAIN bucket}
    /\ UNCHANGED <<GCS_ENABLED, VIDEO_AI_ENABLED, monitoring, now, activeSessions, requests,
                   tempDir, uploadsDir, bucket, gcsCalls,
                   appVars, apiVars>>

\* the mobile client before its first event
IdleApp ==
    /\ clock = 1
    /\ isStreaming = FALSE
    /\ isRecording = FALSE
    /\ sessionId = NewSessionId(DeviceId, 0)
    /\ chunkCount = 0
    /\ connectionStatus = "Disconnected"
    /\ startCall = NoCall
    /\ stopCall = NoCall
    /\ camera = [recording |-> FALSE]
    /\ timers = {}
    /\ uploads = <<>>
    /\ runs = 0

\* the steps of the POST /upload-chunk requests in flight
UploadChunkStep ==
    \/ \E video \in BOOLEAN, meta \in MetadataKinds, names \in Nameable :
          UploadChunkReceive(video, meta, names)
    \/ \E r \in 1..MaxRequests, ok \in BOOLEAN : MoveToUploads(r, ok)
    \/ \E r \in 1..MaxRequests, outcome \in GcsOutcomes : GcsUpload(r, outcome)
    \/ \E r \in 1..MaxRequests, unlinked \in BOOLEAN : UploadChunkFinish(r, unlinked)

\* Sessions and chunks: the requests arrive within one second, and TEMP_DIR
\* holds nothing but their files.
InitServer == IdleApp /\ StartServer({}) /\ IdleApi

NextServer ==
    \/ PostStartRecording
    \/ \E s \in 1..MaxSessions : PostStopRecording(s)
    \/ UploadChunkStep

\* The services: the chunks name no session, and a video file lies in TEMP_DIR
\* for the monitor.
InitServices == IdleApp /\ StartServer({StrayVideo}) /\ IdleApi

NextServices ==
    \/ UploadChunkStep
    \/ \E outcome \in GcsOutcomes, unlinked \in BOOLEAN : MonitorRun(outcome, unlinked)
    \/ \E hasUri \in BOOLEAN : PostAnalyzeVideo(hasUri)
    \/ \E listed \in BOOLEAN : PostAnalyzeAllVideos(listed)

SpecServer == InitServer /\ [][NextServer]_vars

SpecServices == InitServices /\ [][NextServices]_vars

-----------------------------------------------------------------------------
(* Claims about the backend's upload pipeline *)

\* the requests that carried a video file
VideoRequests == {r \in 1..Len(requests) : requests[r].video}

\* the permanent copy of request r exists
Copied(r) == requests[r].localPath # <<>> /\ requests[r].localPath \in DOMAIN uploadsDir

Naming(s) == {r \in VideoRequests : requests[r].meta = "named" /\ requests[r].sessionId = s}

SessionCounts ==
    \A s \in 1..Len(activeSessions) :
        /\ activeSessions[s].chunkCount = Cardinality(Naming(s))
        /\ Len(activeSessions[s].uploads) <= activeSessions[s].chunkCount

\* C4: a session starts with chunkCount 0; chunkCount grows by exactly one with
\* each /upload-chunk request that carries a video file and names the session,
\* and never decreases; the uploads list never has more than chunkCount entries.
C4_ChunkCount ==
    /\ [] SessionCounts
    /\ [][/\ \A s \in 1..Len(activeSessions) :
                /\ s \in 1..Len(activeSessions')
                /\ activeSessions'[s].chunkCount >= activeSessions[s].chunkCount
                /\ activeSessions'[s].chunkCount - activeSessions[s].chunkCount
                      = Cardinality({r \in (1..Len(requests')) \ (1..Len(requests)) :
                                        /\ requests'[r].video
                                        /\ requests'[r].meta = "named"
                                        /\ requests'[r].sessionId = s})
          /\ \A s \in (1..Len(activeSessions')) \ (1..Len(activeSessions)) :
                activeSessions'[s].chunkCount = 0 /\ activeSessions'[s].uploads = <<>>]_vars

\* a stopped session that counted two chunks, one of them without upload info
C4_Witness ==
    \E s \in 1..Len(activeSessions) :
        /\ activeSessions[s].chunkCount = 2
        /\ Len(activeSessions[s].uploads) = 1
        /\ activeSessions[s].status = "stopped"

\* the requests answered 200, server.js:695-712
AcceptedRequests == {r \in VideoRequests : requests[r].reply.status = 200}

\* C20, as stated: two different accepted /upload-chunk requests never get the
\* same permanent local path nor the same GCS object path, so the file under an
\* accepted request's local path is its own chunk, and so is the object under
\* its GCS path when its upload succeeded; two chunks of one device handled
\* within the same second included.
C20_DistinctPaths ==
    /\ \A r1, r2 \in AcceptedRequests :
          r1 # r2 => /\ requests[r1].localPath # requests[r2].localPath
                     /\ requests[r1].gcsPath # requests[r2].gcsPath
    /\ \A r \in AcceptedRequests :
          /\ uploadsDir[requests[r].localPath] = r
          /\ requests[r].gcs = "ok" => bucket[requests[r].gcsPath] = <<"chunk", r>>

\* u.status of an upload info, server.js:759-761: the property is read as it
\* is; an info that has no such property gives undefined
StatusOf(u) == IF "status" \in DOMAIN u THEN u.status ELSE "undefined"

\* uploads.filter(u => u.status === status).length, server.js:759-761
CountStatus(sessionUploads, status) ==
    Cardinality({i \in 1..Len(sessionUploads) : StatusOf(sessionUploads[i]) = status})

\* allUploads.filter(u => u.uploadStatus === status).length, server.js:1251-1253
CountUploadStatus(sessionUploads, status) ==
    Cardinality({i \in 1..Len(sessionUploads) : sessionUploads[i].uploadStatus = status})

\* uploadStats of GET /session/:sessionId/upload-status for an existing
\* session, server.js:753-762
SessionUploadStats(s) ==
    LET sessionUploads == activeSessions[s].uploads
    IN  [total |-> Len(sessionUploads),
         completed |-> CountStatus(sessionUploads, "completed"),
         pending |-> CountStatus(sessionUploads, "pending_gcs_upload"),
         failed |-> CountStatus(sessionUploads, "failed")]

\* Array.from(activeSessions.values()).flatMap(session => session.uploads),
\* server.js:1247-1248
RECURSIVE AllUploads(_)
AllUploads(n) == IF n = 0 THEN <<>> ELSE AllUploads(n - 1) \o activeSessions[n].uploads

\* uploadStats of GET /api/upload-status, server.js:1250-1255
ApiUploadStats ==
    LET allUploads == AllUploads(Len(activeSessions))
    IN  [completed |-> CountUploadStatus(allUploads, "completed"),
         failed |-> CountUploadStatus(allUploads, "failed"),
         pending |-> CountUploadStatus(allUploads, "pending_gcs_upload"),
         total |-> Len(allUploads)]

\* the sum of f[s] over the sessions 1..n
RECURSIVE SumOverSessions(_, _)
SumOverSessions(f, n) == IF n = 0 THEN 0 ELSE SumOverSessions(f, n - 1) + f[n]

\* C22, as stated: for every existing session /session/:sessionId/upload-status
\* reports total = completed + pending + failed, with completed the number of
\* the session's recorded uploads whose GCS upload succeeded and failed the
\* number whose GCS upload failed; over all sessions these are the completed
\* and failed counts that /api/upload-status reports.
C22_UploadStats ==
    LET S == 1..Len(activeSessions)
        stats == [s \in S |-> SessionUploadStats(s)]
        succeeded(s) == {r \in Naming(s) : requests[r].gcs = "ok"}
        notSucceeded(s) == {r \in Naming(s) : requests[r].gcs \in {"upload_failed", "disabled"}}
    IN  /\ \A s \in S :
              /\ stats[s].total = stats[s].completed + stats[s].pending + stats[s].failed
              /\ stats[s].completed = Cardinality(succeeded(s))
              /\ stats[s].failed = Cardinality(notSucceeded(s))
        /\ SumOverSessions([s \in S |-> stats[s].completed], Len(activeSessions))
              = ApiUploadStats.completed
        /\ SumOverSessions([s \in S |-> stats[s].failed], Len(activeSessions))
              = ApiUploadStats.failed

\* the requests with a video file that have been answered, server.js:695-724
Answered == {r \in VideoRequests : requests[r].reply.status \in {200, 500}}

\* C21, as stated: once /upload-chunk has answered a request that delivered a
\* video file, with 200 as well as with 500, the temp files multer created for
\* the request (video and metadata) are no longer in TEMP_DIR.
C21_TempFilesGone ==
    \A r \in Answered : TempVideo(r) \notin tempDir /\ TempMetadata(r) \notin tempDir

-----------------------------------------------------------------------------
(* Claims about the backend's optional services *)

NoCloudUpload == gcsCalls = {} /\ bucket = <<>> /\ StrayVideo \in tempDir /\ ~monitoring

\* C6, as stated: with GCS disabled every /upload-chunk request with a video
\* file is answered success: true with gcsUpload.success = false, no GCS call
\* is made and no periodic upload runs; with Video AI disabled /analyze-video
\* and /analyze-all-videos answer 503 and start no analysis.
C6_DisabledAnswers ==
    /\ ~GCS_ENABLED =>
          /\ NoCloudUpload
          /\ \A r \in VideoRequests :
                requests[r].pc = "done" =>
                   /\ requests[r].reply.status = 200
                   /\ Copied(r)
                   /\ ~requests[r].reply.gcsSuccess
    /\ ~VIDEO_AI_ENABLED =>
          /\ analyses = {}
          /\ lastReply.route # "none" => lastReply.status = 503

\* C6, amended: with GCS disabled no GCS call is made and no periodic upload
\* runs, and a request with a video file is answered success: true with the
\* path of the permanent copy and gcsUpload.success = false unless its metadata
\* is the JSON text null or the copy failed (then 500); with Video AI disabled
\* no analysis is started, /analyze-all-videos answers 503 and /analyze-video
\* answers 503 if the request has a gcsUri and 400 if it has none.
C6_DisabledServices ==
    /\ ~GCS_ENABLED =>
          /\ NoCloudUpload
          /\ \A r \in VideoRequests :
                requests[r].pc = "done" =>
                   IF requests[r].meta # "null" /\ requests[r].localPath # <<>>
                   THEN /\ requests[r].reply.status = 200
                        /\ requests[r].reply.success
                        /\ requests[r].reply.localPath = requests[r].localPath
                        /\ Copied(r)
                        /\ ~requests[r].reply.gcsSuccess
                   ELSE requests[r].reply.status = 500
    /\ ~VIDEO_AI_ENABLED =>
          /\ analyses = {}
          /\ lastReply.route # "none" =>
                lastReply.status = IF lastReply.route = "/analyze-video" /\ ~lastReply.hasUri
                                   THEN 400 ELSE 503

\* without GCS a chunk was stored locally and an analysis was refused
C6_Witness ==
    /\ ~GCS_ENABLED
    /\ \E r \in VideoRequests : requests[r].reply.status = 200 /\ Copied(r)
    /\ lastReply.route = "/analyze-video"
    /\ lastReply.status = 503

-----------------------------------------------------------------------------
(* src/unnamed/part_001, lines 389-562: the Video Intelligence router.      *)
(* Times are in seconds.                                                    *)

\* seconds a status request, or a timer beyond its delay, can take
MaxLatency == 1

\* const pollInterval = 5000, part_001:456
pollInterval == 5

\* maxWaitTime = 300000, part_001:453 and 495
DefaultMaxWaitTime == 300

Chars(type, text) == [type |-> type, text |-> text]

\* Values of gcsUri in a request body: none, the empty string, 'http', 'gs://b'
\* and the number 123 (shown by its digits).
GcsUris ==
    {Chars("undefined", <<>>), Chars("string", <<>>),
     Chars("string", <<"h", "t", "t", "p">>),
     Chars("string", <<"g", "s", ":", "/", "/", "b">>),
     Chars("number", <<"1", "2", "3">>)}

\* Values of maxWaitTime in a request body: none, or a number of seconds
WaitTimes == {<<>>, <<0>>, <<12>>}

\* { gcsUri, maxWaitTime = 300000 } = req.body, part_001:495
MaxWaitTimeOf(given) == IF given = <<>> THEN DefaultMaxWaitTime ELSE given[1]

\* !gcsUri, part_001:501
Falsy(v) ==
    \/ v.type = "undefined"
    \/ v.type = "string" /\ v.text = <<>>
    \/ v.type = "number" /\ v.text = <<"0">>

GsPrefix == <<"g", "s", ":", "/", "/">>

\* String.prototype.startsWith
StartsWith(text, prefix) ==
    Len(text) >= Len(prefix) /\ SubSeq(text, 1, Len(prefix)) = prefix

\* gcsUri.startsWith('gs://'), part_001:511: only a string has the method; on
\* any other value the call throws a TypeError.
StartsWithGs(v) ==
    IF v.type # "string" THEN "TypeError"
    ELSE IF StartsWith(v.text, GsPrefix) THEN "true" ELSE "false"

\* res.status(status).json({ success, ... }), part_001:502, 512, 536, 554
Reply(status, success, operationName, analysisResults, error) ==
    [status |-> status, success |-> success, operationName |-> operationName,
     analysisResults |-> analysisResults, error |-> error]

\* the catch of the handler, part_001:550-561
Catch(req, error) ==
    [req EXCEPT !.pc = "responded", !.error = error,
                !.responses = Append(@, Reply(500, FALSE, "none", "none", error))]

\* a request arrives, part_001:493-497
PostAnalyzeVideoComplete(gcsUri, given) ==
    /\ vi.pc \in {"idle", "responded"}
    /\ vi' = [IdleVI EXCEPT !.pc = "validate", !.gcsUri = gcsUri,
                            !.maxWaitTime = MaxWaitTimeOf(given)]
    /\ UNCHANGED <<appVars, srvVars, ai, extVars>>

\* Validate input, part_001:500-517
Validate ==
    /\ vi.pc = "validate"
    /\ vi' = IF Falsy(vi.gcsUri)
             THEN [vi EXCEPT !.pc = "responded",
                      !.responses = Append(@, Reply(400, FALSE, "none", "none",
                                                    "gcsUri is required"))]
             ELSE IF StartsWithGs(vi.gcsUri) = "TypeError"
             THEN Catch(vi, "gcsUri.startsWith is not a function")
             ELSE IF StartsWithGs(vi.gcsUri) = "false"
             THEN [vi EXCEPT !.pc = "responded",
                      !.responses = Append(@, Reply(400, FALSE, "none", "none",
                                                    "gcsUri must start with gs://"))]
             ELSE [vi EXCEPT !.pc = "token"]
    /\ UNCHANGED <<appVars, srvVars, ai, extVars>>

\* getAccessToken, part_001:400-416 and 521
GetAccessToken(ok) ==
    /\ vi.pc = "token"
    /\ vi' = IF ok
             THEN [vi EXCEPT !.pc = "start", !.tokens = @ + 1]
             ELSE Catch([vi EXCEPT !.tokens = @ + 1], "Failed to get access token")
    /\ UNCHANGED <<appVars, srvVars, ai, extVars>>

\* startVideoAnnotation, part_001:419-450 and 525; pollOperationStatus takes
\* its start time, part_001:453-458
StartVideoAnnotation(ok) ==
    /\ vi.pc = "start"
    /\ vi' = IF ok
             THEN [vi EXCEPT !.pc = "check", !.starts = @ + 1, !.operation = "operation",
                             !.startTime = vi.dateNow]
             ELSE Catch([vi EXCEPT !.starts = @ + 1], "Failed to start video annotation")
    /\ UNCHANGED <<appVars, srvVars, ai, extVars>>

\* a mutant of WithinWaitTime: the bound is included
WithinWaitTimeInclusive(time, startTime, maxWaitTime) == time - startTime <= maxWaitTime

\* Date.now() - startTime < maxWaitTime, part_001:460
WithinWaitTime(time, startTime, maxWaitTime) == time - startTime < maxWaitTime

\* the loop is entered and the status request is sent, part_001:460-466
PollRequest ==
    /\ vi.pc = "check"
    /\ WithinWaitTime(vi.dateNow, vi.startTime, vi.maxWaitTime)
    /\ vi' = [vi EXCEPT !.pc = "request", !.polls = @ + 1, !.startedAt = vi.dateNow]
    /\ UNCHANGED <<appVars, srvVars, ai, extVars>>

\* the loop is left, part_001:489, and the handler answers, part_001:550-561
PollTimeout ==
    /\ vi.pc = "check"
    /\ ~WithinWaitTime(vi.dateNow, vi.startTime, vi.maxWaitTime)
    /\ vi' = Catch([vi EXCEPT !.outcome = "timeout"], "Operation timeout")
    /\ UNCHANGED <<appVars, srvVars, ai, extVars>>

\* What a status request can bring: the operation not done, done with a
\* response, done with an error, or a failure of the request itself.
PollAnswers == {"not_done", "done_ok", "done_error", "http_error"}

\* the timer is set after an answer that is not done, part_001:481
WaitsAfter(answer) == answer = "not_done"

\* The status request is answered, part_001:468-486; when pollOperationStatus
\* returns, the handler sends the results, part_001:531-548.
PollAnswer(answer, latency) ==
    /\ vi.pc = "request"
    /\ LET at == vi.dateNow + latency
           seen == [vi EXCEPT !.dateNow = at, !.last = answer]
       IN  vi' = IF WaitsAfter(answer)
                 THEN [seen EXCEPT !.pc = "wait", !.notDone = @ + 1]
                 ELSE IF answer = "done_ok"
                 THEN [seen EXCEPT !.pc = "responded", !.outcome = "returned",
                          !.responses = Append(@, Reply(200, TRUE, vi.operation,
                                                        "response", "none"))]
                 ELSE Catch([seen EXCEPT !.outcome = "failed"], "Failed to poll operation")
    /\ UNCHANGED <<appVars, srvVars, ai, extVars>>

\* setTimeout(resolve, pollInterval), part_001:481: the timer fires after
\* pollInterval or later
PollDelay(late) == pollInterval + late

\* the wait between two polls is over, part_001:481
PollWait(late) ==
    /\ vi.pc = "wait"
    /\ vi' = [vi EXCEPT !.pc = "check", !.dateNow = @ + PollDelay(late),
                        !.gap = PollDelay(late)]
    /\ UNCHANGED <<appVars, srvVars, ai, extVars>>

InitVI == IdleApp /\ IdleServer /\ IdleApi

NextVI ==
    \/ \E gcsUri \in GcsUris, given \in WaitTimes : PostAnalyzeVideoComplete(gcsUri, given)
    \/ Validate
    \/ \E ok \in BOOLEAN : GetAccessToken(ok)
    \/ \E ok \in BOOLEAN : StartVideoAnnotation(ok)
    \/ PollRequest
    \/ PollTimeout
    \/ \E answer \in PollAnswers, latency \in 0..MaxLatency : PollAnswer(answer, latency)
    \/ \E late \in 0..MaxLatency : PollWait(late)

\* Every status request is answered or fails, every timer fires, and the
\* handler runs on.
SpecVI == InitVI /\ [][NextVI]_vars /\ WF_vars(NextVI)

-----------------------------------------------------------------------------
(* Claims about the Video Intelligence router *)

Polling == vi.pc \in {"check", "request", "wait"}

PollReturns ==
    /\ (vi.last \in {"done_ok", "done_error", "http_error"}) => vi.outcome # "none"
    /\ vi.outcome = "returned" =>
          /\ vi.last = "done_ok"
          /\ vi.notDone = vi.polls - 1
          /\ vi.responses[1].analysisResults = "response"
    /\ vi.outcome = "failed" =>
          /\ vi.last \in {"done_error", "http_error"}
          /\ vi.notDone = vi.polls - 1
          /\ vi.error = "Failed to poll operation"
    /\ vi.outcome = "timeout" =>
          /\ vi.notDone = vi.polls
          /\ vi.dateNow - vi.startTime >= vi.maxWaitTime
          /\ vi.error = "Operation timeout"

PollPacing ==
    /\ vi.polls >= 1 => vi.startedAt - vi.startTime < vi.maxWaitTime
    /\ vi.polls >= 2 => vi.gap >= pollInterval

MissingOrNotGs(v) == Falsy(v) \/ v.type # "string" \/ ~StartsWith(v.text, GsPrefix)

\* C8: /analyze-video-complete sends exactly one response per request: 400 when
\* gcsUri is missing or does not start with 'gs://', and then no token is
\* fetched and no annotation started; 200 with success: true, the operation
\* name and the results when polling finished without error; 500 with
\* success: false in every other case.
C8_OneResponse ==
    vi.pc = "responded" =>
       /\ Len(vi.responses) = 1
       /\ IF MissingOrNotGs(vi.gcsUri)
          THEN vi.responses[1].status = 400 /\ vi.tokens = 0 /\ vi.starts = 0
          ELSE IF vi.outcome = "returned"
          THEN /\ vi.responses[1].status = 200
               /\ vi.responses[1].success
               /\ vi.responses[1].operationName = vi.operation
               /\ vi.responses[1].analysisResults = "response"
          ELSE vi.responses[1].status = 500 /\ ~vi.responses[1].success

-----------------------------------------------------------------------------
(* The AI alert routes: src/backend/server.js, lines 1386-1417 and          *)
(* 1458-1511, with src/unnamed/part_003 (services/ai-analysis).             *)

\* the severity recognizeImageThreats gives each type of threat,
\* part_003:432, 447 and 465
Severity(type) == IF type = "WEAPON_DETECTED" THEN "critical" ELSE "high"

\* recognizeImageThreats, part_003:419-478: an object whose name has a weapon
\* keyword, a label with a hazard keyword, a text with a threat word
RecognizeImageThreats(objects, labels, text) ==
    (IF objects THEN {"WEAPON_DETECTED"} ELSE {})
    \cup (IF labels THEN {"FIRE_SMOKE_DETECTED"} ELSE {})
    \cup (IF text THEN {"THREATENING_TEXT"} ELSE {})

\* recognizeVideoThreats, part_003:480-486
RecognizeVideoThreats == {}

\* calculateThreatLevel, part_003:488-493
CalculateThreatLevel(threats) ==
    IF \E t \in threats : Severity(t) = "critical" THEN "critical"
    ELSE IF \E t \in threats : Severity(t) = "high" THEN "high"
    ELSE IF \E t \in threats : Severity(t) = "medium" THEN "medium"
    ELSE "low"

\* analysis.threatLevel === 'critical', server.js:1477
AlertsCommandCenter(threatLevel) == threatLevel = "critical"

\* analysis.threats.some(WEAPON_DETECTED or FIRE_SMOKE_DETECTED), server.js:1481
DispatchesFor(threats) ==
    "WEAPON_DETECTED" \in threats \/ "FIRE_SMOKE_DETECTED" \in threats

\* emergencyType, server.js:1482
EmergencyType(threats) ==
    IF "WEAPON_DETECTED" \in threats THEN "SECURITY_THREAT" ELSE "FIRE"

\* the catch of either handler, server.js:1409-1415 and 1503-1509
AiCatch(req) == [req EXCEPT !.pc = "responded", !.status = 500]

\* POST /api/ai/recognize-threats up to the call of recognizeThreats,
\* server.js:1458-1471: 400 without media file; the metadata is parsed.
PostRecognizeThreats(file, mediaType, parsed, objects, labels, text) ==
    /\ ai.pc \in {"idle", "responded"}
    /\ LET req == [IdleAI EXCEPT !.route = "/api/ai/recognize-threats",
                                 !.mediaType = mediaType, !.objects = objects,
                                 !.labels = labels, !.text = text]
       IN  ai' = IF ~file THEN [req EXCEPT !.pc = "responded", !.status = 400]
                 ELSE IF ~parsed THEN AiCatch(req)
                 ELSE [req EXCEPT !.pc = "recognize"]
    /\ UNCHANGED <<appVars, srvVars, vi, extVars>>

\* ThreatRecognizer.recognizeThreats, part_003:387-417: the Vision API may
\* fail; the analysis is stored and a critical one is pushed as an alert.
RecognizeThreats(ok) ==
    /\ ai.pc = "recognize"
    /\ LET threats == IF ai.mediaType = "image"
                      THEN RecognizeImageThreats(ai.objects, ai.labels, ai.text)
                      ELSE RecognizeVideoThreats
           level == CalculateThreatLevel(threats)
       IN  ai' = IF ~ok THEN AiCatch(ai)
                 ELSE [ai EXCEPT
                          !.pc = "unlink", !.threats = threats, !.threatLevel = level,
                          !.stored = Append(@, "threat_recognition"),
                          !.alerts = IF level = "critical"
                                     THEN Append(@, "THREAT_DETECTED") ELSE @]
    /\ UNCHANGED <<appVars, srvVars, vi, extVars>>

\* fs.unlink of the media file and the alert of the command centre,
\* server.js:1473-1479; without dispatch the response follows, server.js:1497
UnlinkMedia(ok) ==
    /\ ai.pc = "unlink"
    /\ ai' = IF ~ok THEN AiCatch(ai)
             ELSE IF ~AlertsCommandCenter(ai.threatLevel)
             THEN [ai EXCEPT !.pc = "responded", !.status = 200]
             ELSE IF ~DispatchesFor(ai.threats)
             THEN [ai EXCEPT !.pc = "responded", !.status = 200,
                             !.emitted = Append(@, "threat_alert")]
             ELSE [ai EXCEPT !.pc = "dispatch", !.emitted = Append(@, "threat_alert")]
    /\ UNCHANGED <<appVars, srvVars, vi, extVars>>

\* EmergencyDispatchSystem.dispatchEmergency is called, server.js:1484-1494;
\* whether it fails or not (a failure is logged), the response follows,
\* server.js:1497
DispatchEmergency ==
    /\ ai.pc = "dispatch"
    /\ ai' = [ai EXCEPT !.pc = "responded", !.status = 200,
                        !.dispatched = Append(@, EmergencyType(ai.threats))]
    /\ UNCHANGED <<appVars, srvVars, vi, extVars>>

\* currentConditions.density, new Date().getHours() and
\* currentConditions.eventType as calculateBottleneckRisk tells them apart
Densities == {10, 25, 35}
Hours == {9, 13}
EventTypes == {"general", "concert"}

\* the score with the densities from 30 on as high (a mutation)
RiskScoreFromThirty(density, hour, eventType) ==
    (IF density >= 30 THEN 40 ELSE IF density > 20 THEN 20 ELSE 0)
    + (IF hour >= 12 /\ hour <= 14 THEN 15 ELSE 0)
    + (IF eventType \in {"concert", "sports"} THEN 25 ELSE 0)

\* calculateBottleneckRisk, part_003:160-192: the score
RiskScore(density, hour, eventType) ==
    (IF density > 30 THEN 40 ELSE IF density > 20 THEN 20 ELSE 0)
    + (IF hour >= 12 /\ hour <= 14 THEN 15 ELSE 0)
    + (IF eventType \in {"concert", "sports"} THEN 25 ELSE 0)

\* calculateBottleneckRisk, part_003:188-189: the level
RiskLevel(score) == IF score >= 60 THEN "high" ELSE IF score >= 30 THEN "medium" ELSE "low"

\* POST /api/ai/predict-bottlenecks up to the call of predictBottlenecks,
\* server.js:1386-1397: 400 without currentConditions
PostPredictBottlenecks(conditions, density, hour, eventType) ==
    /\ ai.pc \in {"idle", "responded"}
    /\ LET req == [IdleAI EXCEPT !.route = "/api/ai/predict-bottlenecks",
                                 !.density = density, !.hour = hour,
                                 !.eventType = eventType]
       IN  ai' = IF ~conditions THEN [req EXCEPT !.pc = "responded", !.status = 400]
                 ELSE [req EXCEPT !.pc = "predict"]
    /\ UNCHANGED <<appVars, srvVars, vi, extVars>>

\* CrowdAnalyzer.predictBottlenecks, part_003:122-158, with
\* triggerBottleneckAlert, part_003:194-206, and the rest of the handler,
\* server.js:1399-1408: a high risk is pushed as an alert and emitted as
\* 'bottleneck_warning'; storing the prediction may fail.
PredictBottlenecks(ok) ==
    /\ ai.pc = "predict"
    /\ LET score == RiskScore(ai.density, ai.hour, ai.eventType)
           level == RiskLevel(score)
       IN  ai' = IF ~ok THEN AiCatch(ai)
                 ELSE [ai EXCEPT
                          !.pc = "responded", !.status = 200,
                          !.riskScore = score, !.riskLevel = level,
                          !.stored = Append(@, "bottleneck_prediction"),
                          !.alerts = IF level = "high"
                                     THEN Append(@, "BOTTLENECK_WARNING") ELSE @,
                          !.emitted = IF level = "high"
                                      THEN Append(@, "bottleneck_warning") ELSE @]
    /\ UNCHANGED <<appVars, srvVars, vi, extVars>>

InitAI == IdleApp /\ IdleServer /\ IdleApi

NextAI ==
    \/ \E file \in BOOLEAN, mediaType \in {"image", "video"}, parsed \in BOOLEAN,
          objects \in BOOLEAN, labels \in BOOLEAN, text \in BOOLEAN :
          PostRecognizeThreats(file, mediaType, parsed, objects, labels, text)
    \/ \E ok \in BOOLEAN : RecognizeThreats(ok)
    \/ \E ok \in BOOLEAN : UnlinkMedia(ok)
    \/ DispatchEmergency
    \/ \E conditions \in BOOLEAN, density \in Densities, hour \in Hours,
          eventType \in EventTypes :
          PostPredictBottlenecks(conditions, density, hour, eventType)
    \/ \E ok \in BOOLEAN : PredictBottlenecks(ok)

SpecAI == InitAI /\ [][NextAI]_vars

-----------------------------------------------------------------------------
(* Claims about the AI alert routes *)

\* C9: whenever the analysis produced by POST /api/ai/recognize-threats
\* contains a WEAPON_DETECTED or a FIRE_SMOKE_DETECTED threat,
\* dispatchEmergency has been invoked when the response is sent, with type
\* SECURITY_THREAT if a weapon is among the threats and FIRE otherwise.
C9_ThreatDispatch ==
    (/\ ai.route = "/api/ai/recognize-threats"
     /\ ai.pc = "responded"
     /\ ai.status = 200
     /\ ("WEAPON_DETECTED" \in ai.threats \/ "FIRE_SMOKE_DETECTED" \in ai.threats))
    => ai.dispatched = <<IF "WEAPON_DETECTED" \in ai.threats
                         THEN "SECURITY_THREAT" ELSE "FIRE">>

\* C10: whenever a prediction made through POST /api/ai/predict-bottlenecks
\* has riskLevel 'high', dispatchEmergency is invoked for it.
C10_BottleneckDispatch ==
    (/\ ai.route = "/api/ai/predict-bottlenecks"
     /\ ai.pc = "responded"
     /\ ai.riskLevel = "high")
    => ai.dispatched # <<>>

-----------------------------------------------------------------------------
(* POST /api/emergency/dispatch, src/backend/server.js:1552-1589, with        *)
(* EmergencyDispatchSystem of src/backend/services/emergency-dispatch.js and  *)
(* the Socket.IO rooms of server.js:1332-1348                                 *)

\* the keys of EMERGENCY_TYPES, emergency-dispatch.js:47-84
EMERGENCY_TYPES ==
    {"MEDICAL", "FIRE", "SECURITY_THREAT", "CROWD_CONTROL", "LOST_PERSON", "TECHNICAL"}

\* EMERGENCY_TYPES is an object literal: a lookup also finds what it inherits from
\* Object.prototype
ObjectPrototype == {"constructor"}

\* EMERGENCY_TYPES[type] is truthy
TypeFound(type) == type \in EMERGENCY_TYPES \cup ObjectPrototype

\* the types a request may carry; "undefined" is a body without type
TypesSent == {"undefined", "MEDICAL", "FIRE", "TECHNICAL", "UNKNOWN", "constructor"}

\* a coordinate of the request: absent, or a number
Coordinates == {<<>>, <<0>>, <<40>>}

\* the truthiness of incident.location.lat, emergency-dispatch.js:454-455
TruthyCoordinate(c) == c # <<>> /\ c[1] # 0

\* !incident.type || !EMERGENCY_TYPES[incident.type], server.js:1556
TypeRefused(type) == type = "undefined" \/ ~TypeFound(type)

\* validateIncident, emergency-dispatch.js:449-456
ValidateIncident(type, location, lat, lng) ==
    /\ type # "undefined"
    /\ TypeFound(type)
    /\ location
    /\ TruthyCoordinate(lat)
    /\ TruthyCoordinate(lng)

\* the ids of the responders, emergency-dispatch.js:506-538
Responders == {"resp_001", "resp_002", "resp_003"}

\* what findNearestResponders may return (at most 3): the mock responders, or
\* the available responders of Firebase by distance
FoundResponders ==
    {<<>>, <<"resp_002">>, <<"resp_002", "resp_001">>,
     <<"resp_001", "resp_002", "resp_003">>}

\* the rooms of server.js:1336 and 1341, and the room every socket has of its own
CommandCenter == <<"command_center">>
ResponderRoom(responderId) == <<"responder", responderId>>
OwnRoom(s) == <<"socket", s>>

\* the responder ids a client may join with
JoinIds == {"resp_002", "resp_003"}

\* the sockets in a room
InRoom(room) == {s \in Sockets : sockets[s].connected /\ room \in sockets[s].rooms}

\* the catch of the route, server.js:1582-1588
DispatchCatch(e, error) ==
    [e EXCEPT !.pc = "responded", !.status = 500, !.error = error]

\* the handler up to the first await of dispatchEmergency: the check of the type,
\* server.js:1554-1562, and validateIncident, emergency-dispatch.js:96-99
PostEmergencyDispatch(type, location, lat, lng) ==
    /\ ed.pc = "idle"
    \* a body without location has no coordinates
    /\ location \/ (lat = <<>> /\ lng = <<>>)
    /\ LET req == [IdleED EXCEPT !.type = type, !.location = location,
                                 !.lat = lat, !.lng = lng]
       IN ed' = IF TypeRefused(type)
                THEN [req EXCEPT !.pc = "responded", !.status = 400,
                                 !.error = "Invalid or missing emergency type"]
                ELSE IF ~ValidateIncident(type, location, req.lat, req.lng)
                THEN DispatchCatch(req, "Invalid incident data provided")
                ELSE [req EXCEPT !.pc = "store"]
    /\ UNCHANGED <<appVars, srvVars, vi, ai, sockets, live, hub, risk, chunkEvents, de,
                   camVars>>

\* await this.storeIncident(incidentRecord), emergency-dispatch.js:117-118
StoreIncident(ok) ==
    /\ ed.pc = "store"
    /\ ed' = IF ok THEN [ed EXCEPT !.pc = "find", !.stored = TRUE]
             ELSE DispatchCatch(ed, "store failed")
    /\ UNCHANGED <<appVars, srvVars, vi, ai, sockets, live, hub, risk, chunkEvents, de,
                   camVars>>

\* findNearestResponders, emergency-dispatch.js:120-125 and 186-226
FindNearestResponders(found) ==
    /\ ed.pc = "find"
    /\ ed' = [ed EXCEPT !.found = found,
                        !.pc = IF Len(found) = 0 THEN "escalate" ELSE "assign"]
    /\ UNCHANGED <<appVars, srvVars, vi, ai, sockets, live, hub, risk, chunkEvents, de,
                   camVars>>

\* no responder: escalateIncident and the result without assignments,
\* emergency-dispatch.js:127-131
EscalateIncident(ok) ==
    /\ ed.pc = "escalate"
    /\ ed' = IF ok THEN [ed EXCEPT !.pc = "emit", !.escalated = TRUE,
                                   !.result = "no_responders"]
             ELSE DispatchCatch(ed, "escalation failed")
    /\ UNCHANGED <<appVars, srvVars, vi, ai, sockets, live, hub, risk, chunkEvents, de,
                   camVars>>

\* the first Math.min(availableResponders.length, 2) responders
Assigned(found) == SubSeq(found, 1, IF Len(found) < 2 THEN Len(found) ELSE 2)

\* the loop that assigns the responders and alerts each of them (a failed
\* alert is logged by sendResponderAlert), emergency-dispatch.js:133-155
AssignResponders ==
    /\ ed.pc = "assign"
    /\ ed' = [ed EXCEPT !.pc = "update", !.assignments = Assigned(ed.found),
                        !.alerted = Assigned(ed.found)]
    /\ UNCHANGED <<appVars, srvVars, vi, ai, sockets, live, hub, risk, chunkEvents, de,
                   camVars>>

\* await this.updateIncident(incidentRecord) and the return of the result,
\* emergency-dispatch.js:157-178
UpdateIncident(ok) ==
    /\ ed.pc = "update"
    /\ ed' = IF ok THEN [ed EXCEPT !.pc = "emit", !.result = "dispatched"]
             ELSE DispatchCatch(ed, "update failed")
    /\ UNCHANGED <<appVars, srvVars, vi, ai, sockets, live, hub, risk, chunkEvents, de,
                   camVars>>

\* the assignments that are sent out with the result (as a mutation: every
\* responder that was found)
NotifiedFound(e) == e.found

\* result.assignments, server.js:1570-1571
Notified(e) == e.assignments

\* one 'assignment' event per assignment, server.js:1571-1579
AssignmentEvents(e) ==
    [i \in 1..Len(Notified(e)) |->
        [room |-> ResponderRoom(Notified(e)[i]), event |-> "assignment",
         assignment |-> i, to |-> InRoom(ResponderRoom(Notified(e)[i]))]]

\* the events of the route and res.json(result), server.js:1566-1581
EmitDispatch ==
    /\ ed.pc = "emit"
    /\ ed' = [ed EXCEPT !.pc = "responded", !.status = 200,
                        !.emitted = <<[room |-> CommandCenter,
                                       event |-> "emergency_dispatch",
                                       assignment |-> 0,
                                       to |-> InRoom(CommandCenter)]>>
                                    \o AssignmentEvents(ed)]
    /\ UNCHANGED <<appVars, srvVars, vi, ai, sockets, live, hub, risk, chunkEvents, de,
                   camVars>>

\* io.on('connection'), server.js:1332
Connection(s) ==
    /\ ~sockets[s].connected
    /\ sockets' = [sockets EXCEPT ![s] = [connected |-> TRUE, rooms |-> {OwnRoom(s)},
                                          joined |-> {}]]
    /\ UNCHANGED <<appVars, srvVars, vi, ai, ed, live, hub, risk, chunkEvents, de,
                   camVars>>

\* socket.on('join_command_center'), server.js:1335-1338
JoinCommandCenter(s) ==
    /\ sockets[s].connected
    /\ sockets' = [sockets EXCEPT ![s].rooms = @ \cup {CommandCenter},
                                  ![s].joined = @ \cup {CommandCenter}]
    /\ UNCHANGED <<appVars, srvVars, vi, ai, ed, live, hub, risk, chunkEvents, de,
                   camVars>>

\* socket.on('join_responder'), server.js:1340-1343
JoinResponder(s, responderId) ==
    /\ sockets[s].connected
    /\ sockets' = [sockets EXCEPT ![s].rooms = @ \cup {ResponderRoom(responderId)},
                                  ![s].joined = @ \cup {ResponderRoom(responderId)}]
    /\ UNCHANGED <<appVars, srvVars, vi, ai, ed, live, hub, risk, chunkEvents, de,
                   camVars>>

\* socket.on('disconnect'), server.js:1345-1347: the socket leaves its rooms
Disconnect(s) ==
    /\ sockets[s].connected
    /\ sockets' = [sockets EXCEPT ![s] = [connected |-> FALSE, rooms |-> {},
                                          joined |-> {}]]
    /\ UNCHANGED <<appVars, srvVars, vi, ai, ed, live, hub, risk, chunkEvents, de,
                   camVars>>

InitDispatch == IdleApp /\ IdleServer /\ IdleApi

NextDispatch ==
    \/ \E type \in TypesSent, location \in BOOLEAN, lat \in Coordinates,
          lng \in Coordinates : PostEmergencyDispatch(type, location, lat, lng)
    \/ \E ok \in BOOLEAN : StoreIncident(ok)
    \/ \E found \in FoundResponders : FindNearestResponders(found)
    \/ \E ok \in BOOLEAN : EscalateIncident(ok)
    \/ AssignResponders
    \/ \E ok \in BOOLEAN : UpdateIncident(ok)
    \/ EmitDispatch
    \/ \E s \in Sockets : Connection(s)
    \/ \E s \in Sockets : JoinCommandCenter(s)
    \/ \E s \in Sockets, responderId \in JoinIds : JoinResponder(s, responderId)
    \/ \E s \in Sockets : Disconnect(s)

SpecDispatch == InitDispatch /\ [][NextDispatch]_vars

-----------------------------------------------------------------------------
(* Claims about the emergency dispatch *)

\* the errors of a refused incident, server.js:1559 and emergency-dispatch.js:98
RefusalErrors == {"Invalid or missing emergency type", "Invalid incident data provided"}

\* the request was refused: an error answer, nothing stored, nobody notified
Rejected(e) ==
    /\ e.status \in {400, 500}
    /\ ~e.stored /\ ~e.escalated
    /\ e.alerted = <<>> /\ e.emitted = <<>>

\* C11: an incident is accepted exactly when its type is one of the six
\* EMERGENCY_TYPES and its location has a lat and a lng (any number, 0 included);
\* otherwise it is refused before anything is stored or anyone is notified, with
\* 400 for the type and 'Invalid incident data provided' for the location.
C11_AcceptsValidIncidents ==
    ed.pc # "idle" =>
        LET valid == /\ ed.type \in EMERGENCY_TYPES
                     /\ ed.location /\ ed.lat # <<>> /\ ed.lng # <<>>
        IN /\ valid => ed.error \notin RefusalErrors
           /\ ~valid =>
                 /\ ed.pc = "responded"
                 /\ Rejected(ed)
                 /\ IF ed.type \notin EMERGENCY_TYPES
                    THEN ed.status = 400
                         /\ ed.error = "Invalid or missing emergency type"
                    ELSE ed.status = 500
                         /\ ed.error = "Invalid incident data provided"

\* C12: a result of the dispatch is emitted exactly once as 'emergency_dispatch'
\* to command_center, each assignment of the result is emitted exactly once as
\* 'assignment' to the room of its responder, no other room gets an assignment,
\* and a socket is in such a room only after it emitted the join for it.
C12_DispatchEvents ==
    /\ (ed.pc = "responded" /\ ed.result # "none") =>
          /\ Cardinality({i \in DOMAIN ed.emitted :
                            ed.emitted[i].event = "emergency_dispatch"}) = 1
          /\ \A i \in DOMAIN ed.emitted :
                ed.emitted[i].event = "emergency_dispatch"
                    => ed.emitted[i].room = CommandCenter
          /\ \A a \in DOMAIN ed.assignments :
                Cardinality({i \in DOMAIN ed.emitted :
                                /\ ed.emitted[i].event = "assignment"
                                /\ ed.emitted[i].assignment = a
                                /\ ed.emitted[i].room
                                     = ResponderRoom(ed.assignments[a])}) = 1
          /\ \A i \in DOMAIN ed.emitted :
                ed.emitted[i].event = "assignment" =>
                    \E a \in DOMAIN ed.assignments :
                        /\ ed.emitted[i].assignment = a
                        /\ ed.emitted[i].room = ResponderRoom(ed.assignments[a])
    /\ ed.result = "none" => ed.emitted = <<>>
    /\ \A s \in Sockets :
          /\ sockets[s].rooms \ {OwnRoom(s)} \subseteq sockets[s].joined
          /\ ~sockets[s].connected => sockets[s].rooms = {}

\* a dispatch with two assignments out of three responders found was emitted
\* while a client was in the command center and in the room of an assigned responder
C12_Witness ==
    /\ ed.pc = "responded" /\ ed.result = "dispatched"
    /\ Len(ed.found) = 3 /\ Len(ed.assignments) = 2
    /\ Len(ed.emitted) = 3
    /\ ed.emitted[1].to # {}
    /\ \E i \in DOMAIN ed.emitted :
          ed.emitted[i].event = "assignment" /\ ed.emitted[i].to # {}

-----------------------------------------------------------------------------
(* Live streaming: startStreaming, startVideoStreaming,                      *)
(* startSmoothFrameStreaming and stopStreaming of src/App.tsx, and the        *)
(* Socket.IO handlers of the cam backend, src/unnamed/part_002:111-245.       *)
(* The recording of chunks that startStreaming also starts is in SpecApp; the *)
(* connection does not drop by itself.                                        *)

\* START STREAMING presses explored
MaxPresses == 2
\* frames explored, of the client and of other senders
MaxFrames == 2

\* the dashboard clients
Dashboards == {"d1"}

\* the events the backend listens to, part_002:114-237
Listeners ==
    {"register-device", "register-dashboard", "start-stream", "video-frame",
     "chunk-uploaded", "stop-stream", "disconnect"}

\* the event startSmoothFrameStreaming emits its frames with, App.tsx:454
FrameEvent == "live-video-frame"

\* io.to('dashboard').emit(event, ...); of the events only the frames are kept
Broadcast(h, event, frameNumber, frame) ==
    IF event = "video-frame"
    THEN [h EXCEPT !.broadcasts = Append(@, [event |-> event,
                                             frameNumber |-> frameNumber,
                                             frame |-> frame, to |-> h.dashboard])]
    ELSE h

\* socket.on('register-device'), part_002:114-132
OnRegisterDevice(h, socketId) == [h EXCEPT !.deviceSessions = socketId]

\* socket.on('start-stream'), part_002:152-173
OnStartStream(h, socketId) ==
    Broadcast([h EXCEPT !.activeStreams = [active |-> TRUE, socketId |-> socketId,
                                           frameCount |-> 0]],
              "stream-started", 0, 0)

\* socket.on('video-frame'), part_002:176-198
OnVideoFrame(h, frameNumber, frame) ==
    IF h.activeStreams.active
    THEN Broadcast([h EXCEPT !.activeStreams.frameCount = frameNumber],
                   "video-frame", frameNumber, frame)
    ELSE h

\* socket.on('stop-stream'), part_002:227-236
OnStopStream(h) ==
    Broadcast([h EXCEPT !.activeStreams = IdleHub.activeStreams], "stream-stopped", 0, 0)

\* socket.on('disconnect'), part_002:238-249
OnDisconnect(h, socketId) ==
    IF h.deviceSessions = socketId /\ socketId # 0
    THEN Broadcast([h EXCEPT !.deviceSessions = 0,
                             !.activeStreams = IdleHub.activeStreams],
                   "stream-stopped", 0, 0)
    ELSE h

\* what the backend does with an event of a device socket: an event without a
\* listener is dropped
On(h, event, socketId, frameNumber, frame) ==
    IF event \notin Listeners THEN h
    ELSE IF event = "register-device" THEN OnRegisterDevice(h, socketId)
    ELSE IF event = "start-stream" THEN OnStartStream(h, socketId)
    ELSE IF event = "video-frame" THEN OnVideoFrame(h, frameNumber, frame)
    ELSE IF event = "stop-stream" THEN OnStopStream(h)
    ELSE IF event = "disconnect" THEN OnDisconnect(h, socketId)
    ELSE h

\* disabled={connectionStatus === 'Connecting...' || ... 'Starting Video Stream...'},
\* App.tsx:928
ButtonEnabled ==
    live.connectionStatus \notin {"Connecting...", "Starting Video Stream..."}

\* the button calls startStreaming of the current render, App.tsx:486-503 and 927
LivePressStart ==
    /\ ~live.isStreaming /\ ButtonEnabled
    /\ live.call.pc = "idle"
    /\ live.presses < MaxPresses
    /\ live' = [live EXCEPT !.isStreaming = TRUE, !.connectionStatus = "Connecting...",
                            !.presses = @ + 1,
                            !.call = [pc |-> "connect",
                                      videoStreamActive |-> live.videoStreamActive,
                                      socket |-> 0]]
    /\ UNCHANGED <<appVars, srvVars, vi, ai, ed, sockets, hub, risk, chunkEvents, de,
                   camVars>>

\* connectToServer and 'start-stream', App.tsx:332-394 and 503-523
LiveConnect(ok) ==
    /\ live.call.pc = "connect"
    /\ IF ok
       THEN LET k == live.made + 1
            IN /\ live' = [live EXCEPT !.made = k, !.connected = @ \cup {k},
                                       !.connectionStatus = "Connected",
                                       !.socket = k,
                                       !.call.pc = "wait", !.call.socket = k]
               /\ hub' = On(On(hub, "register-device", k, 0, 0), "start-stream", k, 0, 0)
       ELSE /\ live' = [live EXCEPT !.isStreaming = FALSE,
                                    !.connectionStatus = "Connection Failed",
                                    !.call = IdleLive.call]
            /\ UNCHANGED hub
    /\ UNCHANGED <<appVars, srvVars, vi, ai, ed, sockets, risk, chunkEvents, de, camVars>>

\* after the wait of one second: startVideoStreaming, which throws when the
\* camera is not mounted and else sets the interval of startSmoothFrameStreaming
\* with this call's closure, App.tsx:524-531 and 402-430
LiveStartVideo(mounted) ==
    /\ live.call.pc = "wait"
    /\ live' = IF mounted
               THEN [live EXCEPT
                       !.videoStreamActive = TRUE,
                       !.intervals = Append(@, [videoStreamActive |->
                                                    live.call.videoStreamActive,
                                                socket |-> live.call.socket,
                                                frameCount |-> 0, emitted |-> 0,
                                                cleared |-> FALSE]),
                       !.frameIntervalRef = Len(live.intervals) + 1,
                       !.connectionStatus = "Live Streaming",
                       !.call = IdleLive.call]
               ELSE [live EXCEPT !.isStreaming = FALSE,
                                 !.connectionStatus = "Connection Failed",
                                 !.call = IdleLive.call]
    /\ UNCHANGED <<appVars, srvVars, vi, ai, ed, sockets, hub, risk, chunkEvents, de,
                   camVars>>

\* the guard of a tick, App.tsx:431: the socket of the call and the
\* videoStreamActive of the render the call was made in
TickRuns(t) == t.socket \in live.connected /\ t.videoStreamActive

\* one tick of the interval of startSmoothFrameStreaming, App.tsx:429-475
FrameTick(i, photo, converted) ==
    /\ i \in DOMAIN live.intervals
    /\ ~live.intervals[i].cleared
    /\ live.intervals[i].frameCount < MaxFrames
    /\ LET t == live.intervals[i]
           emits == TickRuns(t) /\ photo /\ converted
           n == t.frameCount + 1
           seen == [interval |-> i,
                    taken |-> /\ live.videoStreamActive
                              /\ t.socket \in live.connected
                              /\ photo,
                    emitted |-> emits,
                    next |-> n = t.emitted + 1]
       IN /\ live' = [live EXCEPT
                        !.lastTick = seen,
                        !.intervals[i].frameCount =
                            IF TickRuns(t) /\ photo THEN n ELSE @,
                        !.intervals[i].emitted = IF emits THEN n ELSE @,
                        !.frames = IF emits
                                   THEN Append(@, [frameNumber |-> n,
                                                   hubActive |-> hub.activeStreams.active,
                                                   dashboard |-> hub.dashboard])
                                   ELSE @]
          /\ hub' = IF emits
                    THEN On(hub, FrameEvent, t.socket, n, Len(live.frames) + 1)
                    ELSE hub
    /\ UNCHANGED <<appVars, srvVars, vi, ai, ed, sockets, risk, chunkEvents, de, camVars>>

\* stopStreaming with stopVideoStreaming, App.tsx:694-758
LivePressStop ==
    /\ live.isStreaming /\ ButtonEnabled
    /\ LET k == live.socket
           ref == live.frameIntervalRef
       IN /\ live' = [live EXCEPT
                        !.isStreaming = FALSE, !.videoStreamActive = FALSE,
                        !.intervals = IF ref = 0 THEN @
                                      ELSE [@ EXCEPT ![ref].cleared = TRUE],
                        !.frameIntervalRef = 0,
                        !.connected = @ \ {k}, !.socket = 0,
                        !.connectionStatus = "Disconnected"]
          /\ hub' = IF k = 0 THEN hub
                    ELSE IF k \in live.connected
                    THEN On(On(hub, "stop-stream", k, 0, 0), "disconnect", k, 0, 0)
                    ELSE hub
    /\ UNCHANGED <<appVars, srvVars, vi, ai, ed, sockets, risk, chunkEvents, de, camVars>>

\* socket.on('register-dashboard'), part_002:135-150
RegisterDashboard(d) ==
    /\ d \notin hub.dashboard
    /\ hub' = [hub EXCEPT !.dashboard = @ \cup {d}]
    /\ UNCHANGED <<appVars, srvVars, vi, ai, ed, sockets, live, risk, chunkEvents, de,
                   camVars>>

\* a dashboard client disconnects and leaves the room
DashboardDisconnect(d) ==
    /\ d \in hub.dashboard
    /\ hub' = [hub EXCEPT !.dashboard = @ \ {d}]
    /\ UNCHANGED <<appVars, srvVars, vi, ai, ed, sockets, live, risk, chunkEvents, de,
                   camVars>>

\* a client that emits 'video-frame' for the device, part_002:176
VideoFrame(frameNumber) ==
    /\ Len(hub.broadcasts) < MaxFrames
    /\ hub.activeStreams.active
    /\ hub' = On(hub, "video-frame", 0, frameNumber, 0)
    /\ UNCHANGED <<appVars, srvVars, vi, ai, ed, sockets, live, risk, chunkEvents, de,
                   camVars>>

InitLive == IdleApp /\ IdleServer /\ IdleApi

NextLive ==
    \/ LivePressStart
    \/ \E ok \in BOOLEAN : LiveConnect(ok)
    \/ \E mounted \in BOOLEAN : LiveStartVideo(mounted)
    \/ \E i \in 1..MaxPresses, photo \in BOOLEAN, converted \in BOOLEAN :
          FrameTick(i, photo, converted)
    \/ LivePressStop
    \/ \E d \in Dashboards : RegisterDashboard(d)
    \/ \E d \in Dashboards : DashboardDisconnect(d)
    \/ VideoFrame(1)

SpecLive == InitLive /\ [][NextLive]_vars

-----------------------------------------------------------------------------
(* Claims about live streaming *)

\* C13: while the client's live stream is active and its socket is connected,
\* every tick on which a photo can be taken emits one frame with the next
\* frameNumber, and every frame emitted while the backend has an active stream of
\* the device is broadcast to the clients of the dashboard room.
C13_FramesForwarded ==
    /\ (live.lastTick.interval # 0 /\ live.lastTick.taken)
          => (live.lastTick.emitted /\ live.lastTick.next)
    /\ \A f \in DOMAIN live.frames :
          live.frames[f].hubActive =>
             \E b \in DOMAIN hub.broadcasts :
                /\ hub.broadcasts[b].event = "video-frame"
                /\ hub.broadcasts[b].frame = f
                /\ hub.broadcasts[b].frameNumber = live.frames[f].frameNumber
                /\ hub.broadcasts[b].to = live.frames[f].dashboard

-----------------------------------------------------------------------------
(* src/unnamed/part_002, lines 202-225 and 586-658: the 'chunk-uploaded'     *)
(* handler and processVideoChunk. The file declares processVideoChunk twice  *)
(* in one scope (lines 253 and 586); the later declaration is the one the    *)
(* handler calls. An awaited call of the cloud client or of fs settles.      *)

\* 'chunk-uploaded' events explored
MaxChunkEvents == 2

\* the device sockets that send the events
ChunkSockets == {1}

\* data.chunkId of the events
ChunkIds == {"c1", "c2"}

\* a mutant of ProcessVideoChunkCatch: the error is logged only
ProcessVideoChunkCatchSilent(ev) ==
    [ev EXCEPT !.pc = "returned"]

\* the catch block of processVideoChunk, part_002:651-657: the socket is sent
\* 'analysis-error' and the call returns
ProcessVideoChunkCatch(ev) ==
    [ev EXCEPT !.sent = Append(@, <<"analysis-error", ev.chunkId>>), !.pc = "returned"]

\* socket.on('chunk-uploaded'), part_002:202-219, up to the first await of
\* processVideoChunk, part_002:586-612: the session of the device, if it has
\* one, counts the chunk; the socket and the dashboard room are sent
\* 'chunk-processing'; videoClient.annotateVideo is called.
OnChunkUploaded(k, chunkId) ==
    /\ Len(chunkEvents) < MaxChunkEvents
    /\ chunkEvents' = Append(chunkEvents,
           [socket |-> k, chunkId |-> chunkId,
            counted |-> (hub.deviceSessions # 0),
            sent |-> << <<"chunk-processing", chunkId>> >>,
            dashboard |-> << <<"chunk-processing", chunkId>> >>,
            all |-> <<>>,
            saved |-> FALSE,
            pc |-> "annotateVideo"])
    /\ UNCHANGED <<appVars, srvVars, vi, ai, ed, sockets, live, hub, risk, de, camVars>>

\* socket.on('register-device') of the device, part_002:114-132
ChunkRegisterDevice(k) ==
    /\ hub.deviceSessions = 0
    /\ hub' = On(hub, "register-device", k, 0, 0)
    /\ UNCHANGED <<appVars, srvVars, vi, ai, ed, sockets, live, chunkEvents, risk, de,
                   camVars>>

\* await videoClient.annotateVideo(request), part_002:612
AnnotateVideoSettles(e, ok) ==
    /\ e \in 1..Len(chunkEvents)
    /\ chunkEvents[e].pc = "annotateVideo"
    /\ chunkEvents' = [chunkEvents EXCEPT ![e] =
           IF ok THEN [@ EXCEPT !.pc = "operation"] ELSE ProcessVideoChunkCatch(@)]
    /\ UNCHANGED <<appVars, srvVars, vi, ai, ed, sockets, live, hub, risk, de, camVars>>

\* What operation.promise() settles with, part_002:613-617: annotation results
\* with or without alerts; a result without annotationResults[0], on which
\* processAnalysisResults throws; a rejection.
OperationOutcomes == {"alerts", "no_alerts", "no_results", "rejected"}

\* await operation.promise() and processAnalysisResults, part_002:613-621, up
\* to the call of fs.writeFile
OperationSettles(e, outcome) ==
    /\ e \in 1..Len(chunkEvents)
    /\ chunkEvents[e].pc = "operation"
    /\ chunkEvents' = [chunkEvents EXCEPT ![e] =
           IF outcome \in {"alerts", "no_alerts"}
           THEN [@ EXCEPT !.pc = IF outcome = "alerts" THEN "writeFile_alerts"
                                                          ELSE "writeFile"]
           ELSE ProcessVideoChunkCatch(@)]
    /\ UNCHANGED <<appVars, srvVars, vi, ai, ed, sockets, live, hub, risk, de, camVars>>

\* The emits after the result is saved, part_002:623-649: 'analysis-result' to
\* the socket and to the dashboard room, 'security-alert' to everyone if there
\* are alerts; the call returns.
AnalysisResult(ev) ==
    [ev EXCEPT !.saved = TRUE,
               !.sent = Append(@, <<"analysis-result", ev.chunkId>>),
               !.dashboard = Append(@, <<"analysis-result", ev.chunkId>>),
               !.all = IF ev.pc = "writeFile_alerts"
                       THEN Append(@, <<"security-alert", ev.chunkId>>)
                       ELSE @,
               !.pc = "returned"]

\* await fs.writeFile(analysisPath, ...), part_002:621, and what follows it
WriteFileSettles(e, ok) ==
    /\ e \in 1..Len(chunkEvents)
    /\ chunkEvents[e].pc \in {"writeFile", "writeFile_alerts"}
    /\ chunkEvents' = [chunkEvents EXCEPT ![e] =
           IF ok THEN AnalysisResult(@) ELSE ProcessVideoChunkCatch(@)]
    /\ UNCHANGED <<appVars, srvVars, vi, ai, ed, sockets, live, hub, risk, de, camVars>>

\* The handler after await processVideoChunk(...), part_002:218-224: the call
\* has caught its own errors, so the handler's catch is not entered.
ChunkUploadedReturns(e) ==
    /\ e \in 1..Len(chunkEvents)
    /\ chunkEvents[e].pc = "returned"
    /\ chunkEvents' = [chunkEvents EXCEPT ![e].pc = "done"]
    /\ UNCHANGED <<appVars, srvVars, vi, ai, ed, sockets, live, hub, risk, de, camVars>>

InitChunk == IdleApp /\ IdleServer /\ IdleApi

NextChunk ==
    \/ \E k \in ChunkSockets, chunkId \in ChunkIds : OnChunkUploaded(k, chunkId)
    \/ \E k \in ChunkSockets : ChunkRegisterDevice(k)
    \/ \E e \in 1..MaxChunkEvents, ok \in BOOLEAN : AnnotateVideoSettles(e, ok)
    \/ \E e \in 1..MaxChunkEvents, outcome \in OperationOutcomes : OperationSettles(e, outcome)
    \/ \E e \in 1..MaxChunkEvents, ok \in BOOLEAN : WriteFileSettles(e, ok)
    \/ \E e \in 1..MaxChunkEvents : ChunkUploadedReturns(e)

\* every awaited call settles and every settled await is resumed
ChunkFairness ==
    \A e \in 1..MaxChunkEvents :
        /\ WF_vars(\E ok \in BOOLEAN : AnnotateVideoSettles(e, ok))
        /\ WF_vars(\E outcome \in OperationOutcomes : OperationSettles(e, outcome))
        /\ WF_vars(\E ok \in BOOLEAN : WriteFileSettles(e, ok))
        /\ WF_vars(ChunkUploadedReturns(e))

SpecChunk == InitChunk /\ [][NextChunk]_vars /\ ChunkFairness

-----------------------------------------------------------------------------
(* Claims about the 'chunk-uploaded' events *)

\* the terminal events the socket was sent for an event
TerminalEvents(ev) ==
    SelectSeq(ev.sent, LAMBDA m : m[1] \in {"analysis-result", "analysis-error"})

ChunkEventOrder(ev) ==
    /\ ev.sent[1] = <<"chunk-processing", ev.chunkId>>
    /\ Len(TerminalEvents(ev)) <= 1
    /\ \A i \in DOMAIN TerminalEvents(ev) : TerminalEvents(ev)[i][2] = ev.chunkId
    /\ ev.pc \in {"returned", "done"} <=> Len(TerminalEvents(ev)) = 1

-----------------------------------------------------------------------------
(* CrowdAnalyzer.calculateBottleneckRisk on every input,                     *)
(* src/unnamed/part_003:160-192                                              *)

\* the largest currentDensity explored
MaxDensity == 40

\* current.currentDensity: people per area
RiskDensities == 0..MaxDensity

\* current.timeOfDay: new Date().getHours(), part_003:128
RiskHours == 0..23

\* current.eventType, part_003:129
RiskEventTypes == {"general", "concert", "sports"}

\* the call returns { level, score, actions, zones }
CalculateBottleneckRisk ==
    /\ risk.pc = "called"
    /\ LET score == RiskScore(risk.currentDensity, risk.timeOfDay, risk.eventType)
       IN risk' = [risk EXCEPT !.pc = "returned", !.score = score,
                               !.level = RiskLevel(score)]
    /\ UNCHANGED <<appVars, srvVars, vi, ai, ed, sockets, live, hub, chunkEvents, de,
                   camVars>>

InitRisk ==
    /\ IdleApp /\ IdleServer
    /\ vi = IdleVI /\ ai = IdleAI
    /\ ed = IdleED /\ sockets = NoSockets /\ de = IdleDE
    /\ live = IdleLive /\ hub = IdleHub /\ chunkEvents = <<>>
    /\ IdleCam
    /\ \E density \in RiskDensities, hour \in RiskHours, eventType \in RiskEventTypes :
          risk = [NoRisk EXCEPT !.pc = "called", !.currentDensity = density,
                                !.timeOfDay = hour, !.eventType = eventType]

NextRisk == CalculateBottleneckRisk

SpecRisk == InitRisk /\ [][NextRisk]_vars

-----------------------------------------------------------------------------
(* Claims about calculateBottleneckRisk *)

\* C14: the score is d + t + e with d = 40 above density 30, 20 above 20 up to
\* 30, else 0; t = 15 from 12 to 14 o'clock, else 0; e = 25 for a concert or a
\* sports event, else 0; the level is 'high' from 60, 'medium' from 30 below 60,
\* else 'low'. So the score is within 0..80 and 'high' needs a concert or
\* sports event with a density above 20.
C14_WeightedSum ==
    risk.pc = "returned" =>
        LET d == IF risk.currentDensity > 30 THEN 40
                 ELSE IF 20 < risk.currentDensity /\ risk.currentDensity <= 30 THEN 20
                 ELSE 0
            t == IF 12 <= risk.timeOfDay /\ risk.timeOfDay <= 14 THEN 15 ELSE 0
            e == IF risk.eventType = "concert" \/ risk.eventType = "sports" THEN 25 ELSE 0
        IN /\ risk.score = d + t + e
           /\ risk.level = "high" <=> risk.score >= 60
           /\ risk.level = "medium" <=> (30 <= risk.score /\ risk.score < 60)
           /\ risk.level = "low" <=> risk.score < 30
           /\ risk.level \in {"high", "medium", "low"}
           /\ 0 <= risk.score /\ risk.score <= 80
           /\ risk.level = "high" =>
                 /\ risk.eventType \in {"concert", "sports"}
                 /\ risk.currentDensity > 20

\* a sports event at noon with density 30: 20 + 15 + 25 = 60, the lowest 'high'
C14_Witness ==
    /\ risk.pc = "returned"
    /\ risk.currentDensity = 30 /\ risk.timeOfDay = 12 /\ risk.eventType = "sports"
    /\ risk.score = 60 /\ risk.level = "high"

-----------------------------------------------------------------------------
(* The cam backend, src/unnamed/part_002:807-1421: the recording session,    *)
(* POST /upload-chunk and processVideoChunks, which the cron schedule, POST   *)
(* /stop-recording and the shutdown cleanup call. A call of                   *)
(* processVideoChunks is a process of its own that advances at its awaits;    *)
(* the files in uploads/ are the files of the accepted chunks, none is empty. *)

\* POST /start-recording requests explored
MaxCamStarts == 2
\* chunks that POST /upload-chunk accepts
MaxCamChunks == 2
\* processVideoChunks calls explored
MaxCamRuns == 2

\* everything but the cam backend
nonCamVars == <<appVars, srvVars, vi, ai, ed, sockets, de, live, hub, chunkEvents,
               risk>>

\* the reset of /stop-recording, part_002:943-948: it has no metadata field
StoppedRecording ==
    [isRecording |-> FALSE, startTime |-> 0, chunks |-> <<>>, sessionId |-> 0,
     metadata |-> "undefined"]

\* !currentRecording.metadata, part_002:985
NoMetadata(cr) == cr.metadata \in {"null", "undefined"}

\* POST /start-recording, part_002:883-923; uuidv4() gives every session a new id
PostCamStartRecording(metadata) ==
    /\ camCount.starts < MaxCamStarts
    /\ LET id == camCount.starts + 1
       IN /\ currentRecording' = [isRecording |-> TRUE, startTime |-> id,
                                  chunks |-> <<>>, sessionId |-> id,
                                  metadata |-> IF metadata THEN "body" ELSE "null"]
          /\ camLast' = [NoResponse EXCEPT !.route = "/start-recording", !.status = 200,
                                           !.unchanged = FALSE]
    /\ camCount' = [camCount EXCEPT !.starts = @ + 1]
    /\ UNCHANGED <<nonCamVars, camChunks, camPending, camRuns, camBucket>>

\* the start of processVideoChunks up to its first await, part_002:1163-1176;
\* awaited tells whether POST /stop-recording awaits the call
NewRun(kind, cr) ==
    [awaited |-> kind = "stop",
     pc |-> IF Len(cr.chunks) > 0 THEN "memory" ELSE "readdir",
     chunksToProcess |-> cr.chunks, i |-> 1, sessionId |-> 0,
     uploadFiles |-> <<>>, j |-> 1]

\* POST /stop-recording up to await processVideoChunks(), part_002:926-940
PostCamStopRecording ==
    IF ~currentRecording.isRecording
    THEN /\ camLast' = [NoResponse EXCEPT !.route = "/stop-recording", !.status = 400,
                                          !.error = "No active recording session"]
         /\ UNCHANGED <<nonCamVars, currentRecording, camChunks, camPending, camRuns,
                        camBucket, camCount>>
    ELSE /\ camCount.runs < MaxCamRuns
         /\ currentRecording' = [currentRecording EXCEPT !.isRecording = FALSE]
         /\ camRuns' = Append(camRuns, NewRun("stop", currentRecording))
         /\ camCount' = [camCount EXCEPT !.runs = @ + 1]
         /\ UNCHANGED <<nonCamVars, camChunks, camPending, camBucket, camLast>>

\* POST /upload-chunk up to await fs.move, part_002:963-1009: the metadata of the
\* first chunk is kept before the session is looked at
PostCamUploadChunk(video, metadata, removed) ==
    /\ camPending.pc = "idle"
    /\ Len(camChunks) < MaxCamChunks
    /\ IF ~video
       THEN /\ camLast' = [NoResponse EXCEPT !.route = "/upload-chunk", !.status = 400,
                                             !.error = "No video file provided"]
            /\ UNCHANGED <<currentRecording, camPending>>
       ELSE LET cr == IF /\ metadata
                         /\ Len(currentRecording.chunks) = 0
                         /\ NoMetadata(currentRecording)
                      THEN [currentRecording EXCEPT !.metadata = "chunk"]
                      ELSE currentRecording
            IN /\ currentRecording' = cr
               /\ IF ~cr.isRecording
                  THEN /\ camLast' = [NoResponse EXCEPT
                                        !.route = "/upload-chunk", !.status = 400,
                                        !.error = "No active recording session",
                                        !.unchanged = (cr = currentRecording),
                                        !.tempDeleted = removed]
                       /\ UNCHANGED camPending
                  ELSE /\ camPending' = [pc |-> "move", sessionId |-> cr.sessionId]
                       /\ UNCHANGED camLast
    /\ UNCHANGED <<nonCamVars, camChunks, camRuns, camBucket, camCount>>

\* the chunkInfo of part_002:1011-1019, without its metadata; session is the
\* session of the uniqueName, the one the chunk was accepted in; place is where
\* the file is, and uploads counts the bucket.upload calls that stored the file
ChunkInfo(session, chunkIndex) ==
    [session |-> session, chunkIndex |-> chunkIndex, processed |-> FALSE,
     retryCount |-> 0, place |-> "uploads", uploads |-> 0]

\* POST /upload-chunk after await fs.move, part_002:1009-1035
CamUploadMoved(moved) ==
    /\ camPending.pc = "move"
    /\ camPending' = [pc |-> "idle", sessionId |-> 0]
    /\ IF moved
       THEN /\ camChunks' = Append(camChunks,
                                   ChunkInfo(camPending.sessionId,
                                             Len(currentRecording.chunks)))
            /\ currentRecording' = [currentRecording EXCEPT
                                      !.chunks = Append(@, Len(camChunks) + 1)]
            /\ camLast' = [NoResponse EXCEPT !.route = "/upload-chunk", !.status = 200,
                                             !.unchanged = FALSE]
       ELSE /\ camLast' = [NoResponse EXCEPT !.route = "/upload-chunk", !.status = 500,
                                             !.error = "Failed to upload video chunk"]
            /\ UNCHANGED <<camChunks, currentRecording>>
    /\ UNCHANGED <<nonCamVars, camRuns, camBucket, camCount>>

\* the calls of processVideoChunks by the cron schedule, part_002:1363-1366, and
\* by cleanup, part_002:1369-1374
RunKinds == {"cron", "cleanup"}

ProcessVideoChunks(kind) ==
    /\ camCount.runs < MaxCamRuns
    /\ camRuns' = Append(camRuns, NewRun(kind, currentRecording))
    /\ camCount' = [camCount EXCEPT !.runs = @ + 1]
    /\ UNCHANGED <<nonCamVars, currentRecording, camChunks, camPending, camBucket,
                   camLast>>

\* fileName of an in-memory chunk, part_002:1198-1200, and of a file of the
\* uploads directory, part_002:1293; 0 stands for 'unknown'
SessionFileName(session, chunk) == <<"sessions", session, chunk>>

\* uploadToGCP, part_002:1075-1117: every '/' of fileName becomes '_', and the
\* object goes to videos/<date>/
UploadToGCP(chunk, fileName, session, orphan) ==
    [chunk |-> chunk, destination |-> <<"videos", "date", fileName>>,
     sessionId |-> session, orphan |-> orphan]

\* the file of a chunk is in UPLOADS_DIR
InUploads(c) == camChunks[c].place = "uploads"

\* the in-memory loop up to await uploadToGCP, part_002:1174-1220, and after the
\* loop the filter of part_002:1257-1258
RunBeginChunk(r) ==
    /\ r \in DOMAIN camRuns
    /\ camRuns[r].pc = "memory"
    /\ LET run == camRuns[r]
           Unprocessed(c) == ~camChunks[c].processed
       IN IF run.i > Len(run.chunksToProcess)
          THEN /\ currentRecording' = [currentRecording EXCEPT
                                         !.chunks = SelectSeq(@, Unprocessed)]
               /\ camRuns' = [camRuns EXCEPT ![r].pc = "readdir"]
               /\ UNCHANGED camChunks
          ELSE LET c == run.chunksToProcess[run.i]
               IN /\ UNCHANGED currentRecording
                  /\ IF camChunks[c].processed
                     THEN /\ camRuns' = [camRuns EXCEPT ![r].i = @ + 1]
                          /\ UNCHANGED camChunks
                     ELSE IF ~InUploads(c)
                     THEN /\ camChunks' = [camChunks EXCEPT ![c].processed = TRUE]
                          /\ camRuns' = [camRuns EXCEPT ![r].i = @ + 1]
                     ELSE /\ camRuns' = [camRuns EXCEPT
                                           ![r].pc = "uploading",
                                           ![r].sessionId = currentRecording.sessionId]
                          /\ UNCHANGED camChunks
    /\ UNCHANGED <<nonCamVars, camPending, camBucket, camLast, camCount>>

\* chunk.retryCount > 3, part_002:1238
GivenUp(retryCount) == retryCount > 3

\* the end of uploadToGCP for an in-memory chunk, part_002:1220-1250
RunEndUpload(r, uploaded) ==
    /\ r \in DOMAIN camRuns
    /\ camRuns[r].pc = "uploading"
    /\ LET run == camRuns[r]
           c == run.chunksToProcess[run.i]
           retryCount == camChunks[c].retryCount + 1
       IN /\ IF uploaded
             THEN /\ camBucket' = camBucket \cup
                                      {UploadToGCP(c, SessionFileName(run.sessionId, c),
                                                   run.sessionId, FALSE)}
                  /\ camChunks' = [camChunks EXCEPT
                                     ![c].processed = TRUE,
                                     ![c].uploads = @ + 1,
                                     ![c].place = IF @ = "uploads" THEN "removed" ELSE @]
             ELSE /\ UNCHANGED camBucket
                  /\ camChunks' = [camChunks EXCEPT
                                     ![c].retryCount = retryCount,
                                     ![c].processed = IF GivenUp(retryCount) THEN TRUE ELSE @,
                                     ![c].place = IF GivenUp(retryCount) /\ @ = "uploads"
                                                  THEN "error" ELSE @]
          /\ camRuns' = [camRuns EXCEPT ![r].pc = "memory", ![r].i = @ + 1]
    /\ UNCHANGED <<nonCamVars, currentRecording, camPending, camLast, camCount>>

\* the video files of UPLOADS_DIR, part_002:1271-1275
UploadFiles ==
    LET ids == [c \in 1..Len(camChunks) |-> c]
    IN SelectSeq(ids, InUploads)

\* processVideoChunks returns: a call of /stop-recording goes on with the
\* reset of part_002:942-954
Return(r) ==
    /\ camRuns' = [k \in 1..(Len(camRuns) - 1) |->
                      IF k < r THEN camRuns[k] ELSE camRuns[k + 1]]
    /\ IF camRuns[r].awaited
       THEN /\ currentRecording' = StoppedRecording
            /\ camLast' = [NoResponse EXCEPT !.route = "/stop-recording", !.status = 200,
                                             !.unchanged = FALSE]
       ELSE UNCHANGED <<currentRecording, camLast>>

\* await fs.readdir(UPLOADS_DIR), part_002:1270-1280
RunReadDir(r) ==
    /\ r \in DOMAIN camRuns
    /\ camRuns[r].pc = "readdir"
    /\ IF Len(UploadFiles) = 0
       THEN Return(r)
       ELSE /\ camRuns' = [camRuns EXCEPT ![r].pc = "orphan",
                                          ![r].uploadFiles = UploadFiles, ![r].j = 1]
            /\ UNCHANGED <<currentRecording, camLast>>
    /\ UNCHANGED <<nonCamVars, camChunks, camPending, camBucket, camCount>>

\* the loop over the files of the uploads directory up to await uploadToGCP,
\* part_002:1284-1310; fs.stat throws for a file that is gone
RunBeginOrphan(r) ==
    /\ r \in DOMAIN camRuns
    /\ camRuns[r].pc = "orphan"
    /\ LET run == camRuns[r]
       IN IF run.j > Len(run.uploadFiles)
          THEN Return(r)
          ELSE /\ camRuns' = IF InUploads(run.uploadFiles[run.j])
                             THEN [camRuns EXCEPT ![r].pc = "orphaning"]
                             ELSE [camRuns EXCEPT ![r].j = @ + 1]
               /\ UNCHANGED <<currentRecording, camLast>>
    /\ UNCHANGED <<nonCamVars, camChunks, camPending, camBucket, camCount>>

\* the end of uploadToGCP for a file of the uploads directory, part_002:1310-1346
RunEndOrphan(r, uploaded) ==
    /\ r \in DOMAIN camRuns
    /\ camRuns[r].pc = "orphaning"
    /\ LET run == camRuns[r]
           c == run.uploadFiles[run.j]
       IN /\ IF uploaded
             THEN /\ camBucket' = camBucket \cup
                                      {UploadToGCP(c, SessionFileName(0, c), 0, TRUE)}
                  /\ camChunks' = [camChunks EXCEPT
                                     ![c].uploads = @ + 1,
                                     ![c].place = IF @ = "uploads" THEN "removed" ELSE @]
             ELSE /\ UNCHANGED camBucket
                  /\ camChunks' = [camChunks EXCEPT
                                     ![c].place = IF @ = "uploads" THEN "error" ELSE @]
          /\ camRuns' = [camRuns EXCEPT ![r].pc = "orphan", ![r].j = @ + 1]
    /\ UNCHANGED <<nonCamVars, currentRecording, camPending, camLast, camCount>>

InitCam == IdleApp /\ IdleServer /\ IdleApi

NextCam ==
    \/ \E metadata \in BOOLEAN : PostCamStartRecording(metadata)
    \/ PostCamStopRecording
    \/ \E video \in BOOLEAN, metadata \in BOOLEAN, removed \in BOOLEAN :
          PostCamUploadChunk(video, metadata, removed)
    \/ \E moved \in BOOLEAN : CamUploadMoved(moved)
    \/ \E kind \in RunKinds : ProcessVideoChunks(kind)
    \/ \E r \in 1..MaxCamRuns : RunBeginChunk(r)
    \/ \E r \in 1..MaxCamRuns, uploaded \in BOOLEAN : RunEndUpload(r, uploaded)
    \/ \E r \in 1..MaxCamRuns : RunReadDir(r)
    \/ \E r \in 1..MaxCamRuns : RunBeginOrphan(r)
    \/ \E r \in 1..MaxCamRuns, uploaded \in BOOLEAN : RunEndOrphan(r, uploaded)

SpecCam == InitCam /\ [][NextCam]_vars

-----------------------------------------------------------------------------
(* Claims about the cam backend *)

\* C15: the file of an accepted chunk is uploaded to GCS at most once, however
\* the runs of processVideoChunks of the cron schedule, of /stop-recording and
\* of the shutdown cleanup interleave.
C15_UploadedOnce ==
    \A c \in DOMAIN camChunks : camChunks[c].uploads <= 1

\* C16: a chunk accepted during a session that reaches GCS is stored under
\* sessions/<sessionId>/ of that session with that sessionId in its metadata,
\* never as an orphaned file under sessions/unknown/.
C16_StoredUnderSession ==
    \A o \in camBucket :
        /\ ~o.orphan
        /\ o.sessionId = camChunks[o.chunk].session
        /\ o.destination[1] = "sessions"
        /\ o.destination[2] = camChunks[o.chunk].session

\* C17: a chunk whose upload failed stays pending for the later runs; it is in
\* uploads/error only after more than 3 failed attempts (retryCount > 3).
C17_GivenUpAfterRetries ==
    \A c \in DOMAIN camChunks :
        /\ camChunks[c].place = "error" => camChunks[c].retryCount > 3
        /\ (camChunks[c].retryCount \in 1..3 /\ camChunks[c].uploads = 0)
              => (camChunks[c].place = "uploads" /\ ~camChunks[c].processed)

\* a request of /start-recording or /stop-recording is received in this step
CamSessionRequest ==
    \/ camCount'.starts # camCount.starts
    \/ /\ Len(camRuns') = Len(camRuns) + 1
       /\ camRuns'[Len(camRuns')].awaited

\* C18: once /start-recording has returned a sessionId, currentRecording stays
\* {isRecording: true, sessionId: that id} until a later /stop-recording or
\* /start-recording request is received; a /stop-recording received before the
\* session started never resets it.
C18_SessionStays ==
    [][(/\ currentRecording.isRecording
        /\ \/ ~currentRecording'.isRecording
           \/ currentRecording'.sessionId # currentRecording.sessionId)
          => CamSessionRequest]_vars

\* C19: /stop-recording and /upload-chunk with a video file, received while no
\* recording is active, answer 400 'No active recording session', leave every
\* field of currentRecording as it was, and the temp files are deleted.
C19_RejectedUnchanged ==
    camLast.error = "No active recording session" =>
        /\ camLast.status = 400
        /\ camLast.unchanged
        /\ camLast.tempDeleted

-----------------------------------------------------------------------------
(* src/backend/services/emergency-dispatch.js, lines 88-228:                 *)
(* dispatchEmergency for a valid incident, await by await. A responder is    *)
(* the index of its entry in Object.entries(responders); each available      *)
(* responder has the duration (minutes) calculateDistance returned for it.   *)

\* available responders in Firebase explored
MaxAvailable == 3

\* the largest duration calculateDistance returns for a responder
MaxDuration == 2

\* distanceToIncident.duration of the available responders, in the order of
\* Object.entries(responders)
AvailableResponders ==
    UNION {[1..n -> 0..MaxDuration] : n \in 0..MaxAvailable}

\* a.distanceToIncident?.duration || 999, emergency-dispatch.js:222
SortKey(duration) == IF duration = 0 THEN 999 ELSE duration

\* x put into a sorted list after every element whose key is not larger:
\* Array.prototype.sort is stable
RECURSIVE InsertSorted(_, _, _)
InsertSorted(x, sorted, durations) ==
    IF sorted = <<>> THEN <<x>>
    ELSE IF SortKey(durations[x]) - SortKey(durations[sorted[1]]) < 0
    THEN <<x>> \o sorted
    ELSE <<sorted[1]>> \o InsertSorted(x, Tail(sorted), durations)

\* availableResponders.sort((a, b) => ...), emergency-dispatch.js:221-222, of
\* the first n responders
RECURSIVE SortByDuration(_, _)
SortByDuration(durations, n) ==
    IF n = 0 THEN <<>>
    ELSE InsertSorted(n, SortByDuration(durations, n - 1), durations)

\* .slice(0, maxCount) with maxCount 3, emergency-dispatch.js:119-123 and 223
SliceMaxCount(list) == SubSeq(list, 1, IF Len(list) < 3 THEN Len(list) ELSE 3)

\* getMockResponders(3), emergency-dispatch.js:504-538: resp_001..resp_003
MockResponders == <<1, 2, 3>>

\* the catch of dispatchEmergency, emergency-dispatch.js:181-184: the error is
\* thrown on
DispatchEmergencyCatch(d) ==
    [d EXCEPT !.pc = "thrown", !.result = "thrown", !.log = Append(@, "thrown")]

\* dispatchEmergency up to await this.storeIncident, emergency-dispatch.js:88-116:
\* the incident record is made with status 'DISPATCHING'
CallDispatchEmergency(firebase, available) ==
    /\ de.pc = "idle"
    /\ ~firebase => available = <<>>
    /\ de' = [IdleDE EXCEPT !.pc = "storeIncident", !.firebase = firebase,
                            !.available = available, !.status = "DISPATCHING"]
    /\ UNCHANGED <<appVars, srvVars, vi, ai, ed, sockets, live, hub, risk, chunkEvents,
                   camVars>>

\* await this.storeIncident(incidentRecord), emergency-dispatch.js:116 and
\* 458-462: without Firebase nothing is stored
AwaitStoreIncident(ok) ==
    /\ de.pc = "storeIncident"
    /\ ~de.firebase => ok
    /\ de' = IF ~ok THEN DispatchEmergencyCatch(de)
             ELSE [de EXCEPT !.pc = "findNearestResponders",
                             !.stored = IF de.firebase THEN de.status ELSE @,
                             !.log = Append(@, "storeIncident")]
    /\ UNCHANGED <<appVars, srvVars, vi, ai, ed, sockets, live, hub, risk, chunkEvents,
                   camVars>>

\* await this.findNearestResponders(...), emergency-dispatch.js:119-125 and
\* 188-228, and calculateOptimalRoutes, emergency-dispatch.js:132-135 (it catches
\* its errors): without Firebase, or when reading it fails, the mock responders
AwaitFindNearestResponders(ok) ==
    /\ de.pc = "findNearestResponders"
    /\ LET mock == ~de.firebase \/ ~ok
           found == IF mock THEN MockResponders
                    ELSE SliceMaxCount(SortByDuration(de.available, Len(de.available)))
       IN  de' = [de EXCEPT !.mock = mock, !.found = found,
                            !.log = Append(@, "findNearestResponders"),
                            !.pc = IF Len(found) = 0 THEN "escalateIncident"
                                   ELSE "sendResponderAlert"]
    /\ UNCHANGED <<appVars, srvVars, vi, ai, ed, sockets, live, hub, risk, chunkEvents,
                   camVars>>

\* no responder: await this.escalateIncident and the result without
\* assignments, emergency-dispatch.js:125-129
AwaitEscalateIncident(ok) ==
    /\ de.pc = "escalateIncident"
    /\ de' = IF ~ok THEN DispatchEmergencyCatch(de)
             ELSE [de EXCEPT !.pc = "returned", !.result = "No available responders",
                             !.log = Append(@, "escalateIncident")]
    /\ UNCHANGED <<appVars, srvVars, vi, ai, ed, sockets, live, hub, risk, chunkEvents,
                   camVars>>

\* i < Math.min(availableResponders.length, 2), emergency-dispatch.js:139
LoopContinuesAt(i, found) == i < (IF Len(found) < 2 THEN Len(found) ELSE 2)

\* One pass of the loop, emergency-dispatch.js:139-156: the assignment is
\* pushed with status 'DISPATCHED' and sendResponderAlert is awaited; a failed
\* alert is logged by sendResponderAlert, emergency-dispatch.js:327-376.
AwaitSendResponderAlert(delivered) ==
    /\ de.pc = "sendResponderAlert"
    /\ LET i == Len(de.assignments)
           responder == de.found[i + 1]
       IN  de' = [de EXCEPT
                     !.assignments = Append(@, [responderId |-> responder,
                                                status |-> "DISPATCHED",
                                                alerted |-> delivered]),
                     !.log = Append(@, "sendResponderAlert"),
                     !.pc = IF LoopContinuesAt(i + 1, de.found)
                            THEN "sendResponderAlert" ELSE "updateIncident"]
    /\ UNCHANGED <<appVars, srvVars, vi, ai, ed, sockets, live, hub, risk, chunkEvents,
                   camVars>>

\* incidentRecord.status = 'RESPONDING' and await this.updateIncident,
\* emergency-dispatch.js:159-161 and 464-468
AwaitUpdateIncident(ok) ==
    /\ de.pc = "updateIncident"
    /\ ~de.firebase => ok
    /\ de' = IF ~ok
             THEN [DispatchEmergencyCatch(de) EXCEPT
                      !.status = "RESPONDING"]
             ELSE [de EXCEPT !.pc = "sendCommandCenterAlert",
                             !.status = "RESPONDING",
                             !.stored = IF de.firebase THEN "RESPONDING" ELSE @,
                             !.log = Append(@, "updateIncident")]
    /\ UNCHANGED <<appVars, srvVars, vi, ai, ed, sockets, live, hub, risk, chunkEvents,
                   camVars>>

\* await this.sendCommandCenterAlert (it catches its errors),
\* this.monitorResponse and the result, emergency-dispatch.js:164-180
AwaitSendCommandCenterAlert(delivered) ==
    /\ de.pc = "sendCommandCenterAlert"
    /\ de' = [de EXCEPT !.pc = "returned", !.result = "success",
                        !.commandCenter = delivered,
                        !.log = @ \o <<"sendCommandCenterAlert", "monitorResponse">>]
    /\ UNCHANGED <<appVars, srvVars, vi, ai, ed, sockets, live, hub, risk, chunkEvents,
                   camVars>>

InitDE == IdleApp /\ IdleServer /\ IdleApi

NextDE ==
    \/ \E firebase \in BOOLEAN, available \in AvailableResponders :
          CallDispatchEmergency(firebase, available)
    \/ \E ok \in BOOLEAN : AwaitStoreIncident(ok)
    \/ \E ok \in BOOLEAN : AwaitFindNearestResponders(ok)
    \/ \E ok \in BOOLEAN : AwaitEscalateIncident(ok)
    \/ \E delivered \in BOOLEAN : AwaitSendResponderAlert(delivered)
    \/ \E ok \in BOOLEAN : AwaitUpdateIncident(ok)
    \/ \E delivered \in BOOLEAN : AwaitSendCommandCenterAlert(delivered)

SpecDE == InitDE /\ [][NextDE]_vars

-----------------------------------------------------------------------------
(* Claims about dispatchEmergency *)

\* the steps of the log that are the step named
StepsOf(step) == {i \in DOMAIN de.log : de.log[i] = step}

\* the loop over the responders has ended
AssignedAll ==
    \/ de.pc \in {"updateIncident", "sendCommandCenterAlert"}
    \/ de.pc = "returned" /\ de.result = "success"
    \/ de.pc = "thrown" /\ de.status = "RESPONDING"

\* min(n, 2) of the n responders found are assigned, in the order they were
\* found, each with status 'DISPATCHED'
AssignsFirstTwo ==
    AssignedAll =>
       /\ Len(de.found) \in 1..3
       /\ Len(de.assignments) = (IF Len(de.found) < 2 THEN Len(de.found) ELSE 2)
       /\ \A i \in DOMAIN de.assignments :
             /\ de.assignments[i].responderId = de.found[i]
             /\ de.assignments[i].status = "DISPATCHED"

\* of the responders found in Firebase, none that is not assigned, or is
\* assigned later, has a smaller duration than an assigned one
NearestFirst ==
    (AssignedAll /\ ~de.mock) =>
       \A i \in DOMAIN de.assignments : \A j \in DOMAIN de.found :
          j > i => de.available[de.assignments[i].responderId] <= de.available[de.found[j]]

\* storeIncident has finished, with status 'DISPATCHING', before a responder
\* is looked up or alerted
StoredBeforeLookup ==
    (StepsOf("findNearestResponders") \cup StepsOf("sendResponderAlert") # {}) =>
       /\ de.log[1] = "storeIncident"
       /\ de.firebase => de.stored # "none"
       /\ (de.firebase /\ de.pc \in {"escalateIncident", "sendResponderAlert",
                                      "updateIncident"})
             => de.stored = "DISPATCHING"

\* the status is 'RESPONDING' only after an alert was attempted for every
\* assigned responder
RespondingAfterAlerts ==
    (de.status = "RESPONDING" \/ de.stored = "RESPONDING") =>
       /\ AssignedAll
       /\ Cardinality(StepsOf("sendResponderAlert")) = Len(de.assignments)

\* the command-center alert and the start of monitoring come after the update
\* of the status
CommandCenterAfterUpdate ==
    \A i \in StepsOf("sendCommandCenterAlert") \cup StepsOf("monitorResponse") :
       /\ de.status = "RESPONDING"
       /\ de.firebase => de.stored = "RESPONDING"
       /\ \E u \in StepsOf("updateIncident") :
             /\ u < i
             /\ \A a \in StepsOf("sendResponderAlert") : a < u

\* C24, as stated: a call that finds n >= 1 responders (n <= 3) assigns exactly
\* min(n, 2) of them, the nearest first, each with status 'DISPATCHED'; the
\* incident is stored with status 'DISPATCHING' before any responder is looked
\* up or alerted; its status becomes 'RESPONDING' only after an alert has been
\* attempted for every assigned responder; the command-center alert and the
\* start of monitoring come after that status update.
C24_DispatchSequence ==
    /\ AssignsFirstTwo
    /\ NearestFirst
    /\ StoredBeforeLookup
    /\ RespondingAfterAlerts
    /\ CommandCenterAfterUpdate

====
